---------------------------- MODULE Spec2Model ----------------------------
(***************************************************************************)
(* sshm: SSH connection manager.                                           *)
(*                                                                         *)
(* The module models four parts of the repository:                        *)
(*   - the manual-connection codec (generateManualHostID,                  *)
(*     IsManualConnection, ParseManualConnectionID), specification         *)
(*     SpecCodec;                                                          *)
(*   - the connection-history registry (HistoryManager), specification     *)
(*     SpecHistory;                                                        *)
(*   - the config-file writers of the sshm scripts (sshm_delete, sshm_edit *)
(*     and their older forms without backup), specification SpecConfig;    *)
(*   - the edit form (NewEditForm, deleteHostInput, submitEditForm) on top *)
(*     of the config package, specification SpecForm.                      *)
(*                                                                         *)
(* A Go string is a sequence of one-character strings, so that prefixes,   *)
(* scans and concatenation are computed the way the code computes them.    *)
(***************************************************************************)
EXTENDS Integers, Sequences, FiniteSets, TLC

VARIABLES
    \* ---- codec ----
    conn,        \* the ManualConnection given to generateManualHostID
    hostID,      \* the identifier it returned
    parsed,      \* what ParseManualConnectionID returned for hostID
    cstep,       \* "input", "encoded", "decoded"
    \* ---- history registry ----
    history,     \* hm.history.Connections: identifier -> ConnectionInfo
    now,         \* the last value time.Now() returned
    calls,       \* per identifier: RecordConnection calls since it had no entry
    lastCall,    \* per identifier: time.Now() of its latest RecordConnection
    origin,      \* per identifier: the operations that wrote its entry
    \* ---- history document ----
    hm,          \* the HistoryManager: "closed", "open", "nil" (Connections is
                 \* a nil map), "failed" (Open returned an error), "panicked"
    doc,         \* the file at historyPath: NoFile or [data, mode]
    oldDoc,      \* the file at the legacy path ~/.ssh/sshm_history.json
    opc,         \* position of the running NewHistoryManager, or "idle"
    buf,         \* data read from the legacy file by the running migration
    faults,      \* number of failed system calls so far
    nopens,      \* number of NewHistoryManager calls started
    op,          \* the last operation of the store and the error it returned
    legacy,      \* the history content on disk before the store first
                 \* opened, until the store rewrites the document
    clean,       \* no system call has failed since the running Open started
    \* ---- sorting the host list ----
    hosts,       \* names of the hosts given to a sort, in the order given
    sorted,      \* the list returned: host names, or ConnectionInfo records
    sortBy,      \* "none", "LastUsed", "MostUsed", "All"
    \* ---- config file writers ----
    config,      \* lines of $config_file
    bak,         \* $config_file.bak: <<>> (absent) or <<content>>
    tmp,         \* $tmp_file: <<>> (absent) or <<content>>
    pc,          \* position of the running script
    arg,         \* its arguments and the answers to its prompts
    pre,         \* content of $config_file when the running command started
    result,      \* how the last command ended: "none", "ok", "error", "killed"
    ncmds,       \* number of commands started
    \* ---- edit form ----
    form,        \* the editFormModel, or NoForm
    nforms,      \* number of edit forms opened
    cfgCall,     \* the config-package call made by the last submit
    \* ---- identifier test ----
    isManual,    \* what IsManualConnection returned for hostID: "yes", "no"
    \* ---- ssh argument parser ----
    args,        \* the argument list given to ParseSSHArgs and IsManualSSHCommand
    osUser,      \* user.Current().Username, empty when user.Current() fails
    parsedArgs,  \* what ParseSSHArgs returned: [conn, ok], or NotScanned
    manualCmd,   \* what IsManualSSHCommand returned: "yes", "no"
    \* ---- two stores on one document ----
    stores,      \* per process: whether it runs, and the map of its HistoryManager
    lastWriter,  \* the process whose saveHistory wrote the document last, or 0
    missed,      \* per process: identifiers recorded by the other since it opened
    recorded,    \* per identifier: RecordConnection calls made by both processes
    \* ---- history view (internal/ui/history_tui.go) ----
    model,       \* the HistoryModel
    msg,         \* the message Update handled last
    viewCmd,     \* the command Update returned last
    \* ---- contexts (sshm.bash and its later version) ----
    ctxDir,      \* the files of CONFIG_DIR: name -> content
    ctxLast      \* the context command run last and its exit status

codecVars == <<conn, hostID, parsed, cstep>>
histVars  == <<history, now, calls, lastCall, origin>>
cfgVars   == <<config, bak, tmp, pc, arg, pre, result, ncmds>>
formVars  == <<form, nforms, cfgCall>>
sortVars  == <<hosts, sorted, sortBy>>
storeVars == <<hm, doc, oldDoc, opc, buf, faults, nopens, op, legacy, clean>>
identVars == <<isManual>>
argsVars == <<args, osUser, parsedArgs, manualCmd>>
sharedVars == <<stores, lastWriter, missed, recorded>>
viewVars == <<model, msg, viewCmd>>
ctxVars == <<ctxDir, ctxLast>>
vars      == <<ctxDir, ctxLast,
               model, msg, viewCmd,
               stores, lastWriter, missed, recorded,
               args, osUser, parsedArgs, manualCmd,
               isManual,
               conn, hostID, parsed, cstep, history, now, calls, lastCall, origin,
               hm, doc, oldDoc, opc, buf, faults, nopens, op, legacy, clean,
               hosts, sorted, sortBy,
               config, bak, tmp, pc, arg, pre, result, ncmds, form, nforms, cfgCall>>

\* What the actions of one part leave alone: the state of the other parts.
CodecFrame   == UNCHANGED <<ctxVars, viewVars, sharedVars, argsVars, identVars, histVars, storeVars, sortVars, cfgVars, formVars>>
HistoryFrame == UNCHANGED <<ctxVars, viewVars, sharedVars, argsVars, identVars, codecVars, sortVars, cfgVars, formVars>>
SortFrame    == UNCHANGED <<ctxVars, viewVars, sharedVars, argsVars, identVars, codecVars, histVars, storeVars, cfgVars, formVars>>
ConfigFrame  == UNCHANGED <<ctxVars, viewVars, sharedVars, argsVars, identVars, codecVars, histVars, storeVars, sortVars, formVars>>
FormFrame    == UNCHANGED <<ctxVars, viewVars, sharedVars, argsVars, identVars, codecVars, histVars, storeVars, sortVars, cfgVars>>

-----------------------------------------------------------------------------
(* Strings *)

\* All strings over alphabet A of length at most n.
StrUpTo(A, n) == UNION {[1..k -> A] : k \in 0..n}

\* strings.HasPrefix
HasPrefix(s, p) == Len(s) >= Len(p) /\ SubSeq(s, 1, Len(p)) = p

\* strings.Contains for a one-character needle
ContainsChar(s, c) == \E i \in 1..Len(s) : s[i] = c

STR_manual  == <<"m", "a", "n", "u", "a", "l", ":">>
STR_default == <<"d", "e", "f", "a", "u", "l", "t">>
STR_22      == <<"2", "2">>

-----------------------------------------------------------------------------
(* Manual-connection codec *)

\* Length of the reserved prefix "manual:" tested by IsManualConnection.
ManualPrefixLen == 7

\* An identifier made of the fields as given, with no default filled in.
generateManualHostID_AsGiven(c) ==
    STR_manual \o c.User \o <<"@">> \o c.Hostname \o <<":">> \o c.Port

\* An identifier that always carries the default port.
generateManualHostID_DefaultPort(c) ==
    LET user == IF c.User = <<>> THEN STR_default ELSE c.User
    IN  STR_manual \o user \o <<"@">> \o c.Hostname \o <<":">> \o STR_22

\* generateManualHostID: "manual:%s@%s:%s" with the defaults filled in.
generateManualHostID(c) ==
    LET user == IF c.User = <<>> THEN STR_default ELSE c.User
        port == IF c.Port = <<>> THEN STR_22 ELSE c.Port
    IN  STR_manual \o user \o <<"@">> \o c.Hostname \o <<":">> \o port

\* IsManualConnection: len(hostName) > 7 && hostName[:7] == "manual:"
IsManualConnection(hostName) ==
    /\ Len(hostName) > ManualPrefixLen
    /\ SubSeq(hostName, 1, ManualPrefixLen) = STR_manual

NotParsed == [user |-> <<>>, hostname |-> <<>>, port |-> <<>>, ok |-> FALSE]

\* Index of the last ':' of parts, 0 when there is none (the code's -1).
LastColon(parts) ==
    LET at == {i \in 1..Len(parts) : parts[i] = ":"}
    IN  IF at = {} THEN 0 ELSE CHOOSE i \in at : \A j \in at : j <= i

\* Index of the first '@' of userHost, 0 when there is none.
FirstAt(userHost) ==
    LET at == {i \in 1..Len(userHost) : userHost[i] = "@"}
    IN  IF at = {} THEN 0 ELSE CHOOSE i \in at : \A j \in at : i <= j

\* A split that takes an identifier without '@' as a bare hostname.
ParseSplit_BareHost(parts, lastColon) ==
    IF lastColon = 0 THEN NotParsed
    ELSE
      LET port     == SubSeq(parts, lastColon + 1, Len(parts))
          userHost == SubSeq(parts, 1, lastColon - 1)
          atSign   == FirstAt(userHost)
      IN  [user     |-> SubSeq(userHost, 1, atSign - 1),
           hostname |-> SubSeq(userHost, atSign + 1, Len(userHost)),
           port     |-> port,
           ok       |-> TRUE]

\* ParseManualConnectionID from the point where lastColon is known:
\* port after it, user and hostname around the first '@' before it.
ParseSplit(parts, lastColon) ==
    IF lastColon = 0 THEN NotParsed
    ELSE
      LET port     == SubSeq(parts, lastColon + 1, Len(parts))
          userHost == SubSeq(parts, 1, lastColon - 1)
          atSign   == FirstAt(userHost)
      IN  IF atSign = 0 THEN NotParsed
          ELSE [user     |-> SubSeq(userHost, 1, atSign - 1),
                hostname |-> SubSeq(userHost, atSign + 1, Len(userHost)),
                port     |-> port,
                ok       |-> TRUE]

\* ParseManualConnectionID scanning for the port separator from the front.
ParseManualConnectionID_FirstColon(hostIDv) ==
    IF ~IsManualConnection(hostIDv) THEN NotParsed
    ELSE LET parts == SubSeq(hostIDv, ManualPrefixLen + 1, Len(hostIDv))
             at    == {i \in 1..Len(parts) : parts[i] = ":"}
         IN  ParseSplit(parts, IF at = {} THEN 0
                               ELSE CHOOSE i \in at : \A j \in at : i <= j)

\* ParseManualConnectionID: drop "manual:", split at the last ':' and then at
\* the first '@'.
ParseManualConnectionID(hostIDv) ==
    IF ~IsManualConnection(hostIDv) THEN NotParsed
    ELSE LET parts == SubSeq(hostIDv, ManualPrefixLen + 1, Len(hostIDv))
         IN  ParseSplit(parts, LastColon(parts))

\* Bounds of the codec inputs.
MaxStrLen == 2
CodecAlphabet == {"a", "@", ":"}

CodecUsers     == StrUpTo(CodecAlphabet, MaxStrLen) \cup {STR_default}
CodecHostnames == StrUpTo(CodecAlphabet, MaxStrLen)
CodecPorts     == StrUpTo(CodecAlphabet, MaxStrLen) \cup {STR_22}
CodecIdentities == {<<>>, <<"k">>}

ManualConnections ==
    [User : CodecUsers, Hostname : CodecHostnames, Port : CodecPorts,
     Identity : CodecIdentities]

NoConn == [User |-> <<>>, Hostname |-> <<>>, Port |-> <<>>, Identity |-> <<>>]

Encode ==
    /\ cstep = "input"
    /\ hostID' = generateManualHostID(conn)
    /\ cstep' = "encoded"
    /\ UNCHANGED <<conn, parsed>>
    /\ CodecFrame

Decode ==
    /\ cstep = "encoded"
    /\ parsed' = ParseManualConnectionID(hostID)
    /\ cstep' = "decoded"
    /\ UNCHANGED <<conn, hostID>>
    /\ CodecFrame

\* A caller asks whether hostID is a manual identifier.
Classify ==
    /\ isManual = "unknown"
    /\ isManual' = IF IsManualConnection(hostID) THEN "yes" ELSE "no"
    /\ UNCHANGED codecVars
    /\ UNCHANGED <<ctxVars, viewVars, sharedVars, argsVars, histVars,
                   storeVars, sortVars, cfgVars, formVars>>

\* The identifiers tested and parsed: a tail of separators and letters after
\* "manual:", after "manual" without its colon, and after nothing.
IdentPrefixes == {<<>>, STR_manual, SubSeq(STR_manual, 1, ManualPrefixLen - 1)}
IdentStrings ==
    {p \o t : p \in IdentPrefixes, t \in StrUpTo(CodecAlphabet, MaxStrLen + 2)}

IdentNext == Classify \/ Decode

-----------------------------------------------------------------------------
(* ssh command-line arguments (internal/history/parser.go) *)

STR_dash   == <<"-">>
STR_p      == <<"-", "p">>
STR_i      == <<"-", "i">>
STR_F      == <<"-", "F">>
STR_c      == <<"-", "c">>
STR_config == <<"-", "-", "c", "o", "n", "f", "i", "g">>

\* A parser that rejects -F only.
IsConfigFlag_FOnly(a) == a = STR_F

\* arg == "-F" || arg == "-c" || arg == "--config"
IsConfigFlag(a) == a = STR_F \/ a = STR_c \/ a = STR_config

\* A parser in which the last bare token is the hostname.
BareHostname_Last(c, a) == a

\* The hostname after a token without '@': the token when no hostname is set.
BareHostname(c, a) == IF c.Hostname = <<>> THEN a ELSE c.Hostname

\* strings.SplitN(arg, "@", 2) of a token holding '@': user and hostname.
SplitAt(c, a) ==
    [c EXCEPT !.User = SubSeq(a, 1, FirstAt(a) - 1),
              !.Hostname = SubSeq(a, FirstAt(a) + 1, Len(a))]

\* ParseSSHArgs returning (nil, false).
NilConn  == <<>>
Rejected == [conn |-> NilConn, ok |-> FALSE]

\* ParseSSHArgs not called yet.
NotScanned == <<>>

\* The loop of ParseSSHArgs from index i (from 1) with conn = c, and the
\* test of the hostname after it.
RECURSIVE ScanArgs(_, _, _)
ScanArgs(a, i, c) ==
    IF i > Len(a)
    THEN IF c.Hostname # <<>> THEN [conn |-> c, ok |-> TRUE] ELSE Rejected
    ELSE IF a[i] = STR_p
    THEN IF i + 1 <= Len(a)
         THEN ScanArgs(a, i + 2, [c EXCEPT !.Port = a[i + 1]])
         ELSE ScanArgs(a, i + 1, c)
    ELSE IF HasPrefix(a[i], STR_p)
    THEN ScanArgs(a, i + 1, [c EXCEPT !.Port = SubSeq(a[i], 3, Len(a[i]))])
    ELSE IF a[i] = STR_i
    THEN IF i + 1 <= Len(a)
         THEN ScanArgs(a, i + 2, [c EXCEPT !.Identity = a[i + 1]])
         ELSE ScanArgs(a, i + 1, c)
    ELSE IF IsConfigFlag(a[i])
    THEN Rejected
    ELSE IF HasPrefix(a[i], STR_dash)
    THEN IF i + 1 <= Len(a) /\ ~HasPrefix(a[i + 1], STR_dash)
         THEN ScanArgs(a, i + 2, c)
         ELSE ScanArgs(a, i + 1, c)
    ELSE IF ContainsChar(a[i], "@")
    THEN ScanArgs(a, i + 1, SplitAt(c, a[i]))
    ELSE ScanArgs(a, i + 1, [c EXCEPT !.Hostname = BareHostname(c, a[i])])

\* ParseSSHArgs(args) run by the user currentUser.
ParseSSHArgs(a, currentUser) ==
    IF Len(a) = 0 THEN Rejected
    ELSE ScanArgs(a, 1, [User |-> currentUser, Hostname |-> <<>>,
                         Port |-> STR_22, Identity |-> <<>>])

\* A test that looks for '@' only.
IsManualSSHCommand_AtOnly(a) ==
    \E k \in 1..Len(a) : ContainsChar(a[k], "@")

\* IsManualSSHCommand(args)
IsManualSSHCommand(a) ==
    /\ Len(a) # 0
    /\ \E k \in 1..Len(a) :
           \/ a[k] = STR_p \/ HasPrefix(a[k], STR_p)
           \/ ContainsChar(a[k], "@")

\* Bound: arguments on the command line.
MaxArgs == 3

\* The tokens: -p, -p8, -i, -F, -c, --config, -v, the bare tokens h and 80,
\* and u@h, @h, u@, u@h@x.
ArgTokens ==
    {STR_p, STR_p \o <<"8">>, STR_i, STR_F, STR_c, STR_config, <<"-", "v">>,
     <<"h">>, <<"8", "0">>, <<"u", "@", "h">>, <<"@", "h">>, <<"u", "@">>,
     <<"u", "@", "h", "@", "x">>}

ArgLists == UNION {[1..n -> ArgTokens] : n \in 0..MaxArgs}

\* The invoking user, or nothing when user.Current() returns an error.
OSUsers == {<<"m", "e">>, <<>>}

\* ParseSSHArgs(args)
ParseArgs ==
    /\ parsedArgs = NotScanned
    /\ parsedArgs' = ParseSSHArgs(args, osUser)
    /\ UNCHANGED <<args, osUser, manualCmd>>
    /\ UNCHANGED <<ctxVars, viewVars, sharedVars, identVars, codecVars,
                   histVars, storeVars, sortVars, cfgVars, formVars>>

\* IsManualSSHCommand(args)
CheckManual ==
    /\ manualCmd = "unknown"
    /\ manualCmd' = IF IsManualSSHCommand(args) THEN "yes" ELSE "no"
    /\ UNCHANGED <<args, osUser, parsedArgs>>
    /\ UNCHANGED <<ctxVars, viewVars, sharedVars, identVars, codecVars,
                   histVars, storeVars, sortVars, cfgVars, formVars>>

ArgsNext == ParseArgs \/ CheckManual

-----------------------------------------------------------------------------
(* Connection-history registry (HistoryManager) *)

STR_web == <<"w", "e", "b">>
STR_db  == <<"d", "b">>
STR_manual_x == STR_manual \o <<"x">>

\* Names a config file declares: sshm add and a hand-edited file accept any
\* non-empty token as a host name, one starting with "manual:" included.
HostNames == {STR_web, STR_db, STR_manual_x}

\* The ad-hoc connections recorded: ssh u@h (port defaulted) and ssh h -p 80.
HistManualConns ==
    {[User |-> <<"u">>, Hostname |-> <<"h">>, Port |-> <<>>, Identity |-> <<>>],
     [User |-> <<>>, Hostname |-> <<"h">>, Port |-> <<"8", "0">>,
      Identity |-> <<"k">>]}

Identifiers == HostNames \cup {generateManualHostID(c) : c \in HistManualConns}

\* Bounds of the registry: the clock and the counters stop here.
MaxTime  == 2
MaxCount == 2

NoPortForwarding == <<>>

\* An upsert that writes the new record over an existing one.
Upserted_Reset(h, id, t) ==
    [HostName |-> id, LastConnect |-> t, ConnectCount |-> 1,
     PortForwarding |-> NoPortForwarding]

\* The ConnectionInfo both branches of the upsert store under key id.
Upserted(h, id, t) ==
    IF id \in DOMAIN h
    THEN [h[id] EXCEPT !.LastConnect = t, !.ConnectCount = @ + 1]
    ELSE [HostName |-> id, LastConnect |-> t, ConnectCount |-> 1,
          PortForwarding |-> NoPortForwarding]

\* hm.history.Connections after the upsert of key id at time t.
Upsert(h, id, t) ==
    [k \in DOMAIN h \cup {id} |-> IF k = id THEN Upserted(h, id, t) ELSE h[k]]

\* GetLastConnectionTime: (time, true), or (zero time, false) when absent.
ZeroTime == -1
GetLastConnectionTime(h, hostName) ==
    IF hostName \in DOMAIN h THEN <<h[hostName].LastConnect, TRUE>>
    ELSE <<ZeroTime, FALSE>>

\* GetConnectionCount: 0 when absent.
GetConnectionCount(h, hostName) ==
    IF hostName \in DOMAIN h THEN h[hostName].ConnectCount ELSE 0

\* time.Now(): the clock never goes back; two calls may read the same instant.
Clock(t) == t \in {now, now + 1} /\ t <= MaxTime

CanCount(id) == GetConnectionCount(history, id) < MaxCount

EmptyHistory == <<>>

\* Bound: system calls that fail.
MaxFaults == 1

\* A path with no file, and a file with its content and permission bits.
NoFile == <<>>
HistoryFile(data, mode) == [data |-> data, mode |-> mode]

\* The perm arguments of the two os.WriteFile calls.
PrivateMode  == "0600"
MigratedMode == "0644"

\* The JSON of a PortForwardConfig: all five keys, always.
MarshalPortForward(c) ==
    [type |-> c.Type, local_port |-> c.LocalPort, remote_host |-> c.RemoteHost,
     remote_port |-> c.RemotePort, bind_address |-> c.BindAddress]

\* A ConnectionInfo written without its port forwarding.
MarshalInfo_NoForwarding(e) ==
    [host_name |-> e.HostName, last_connect |-> e.LastConnect,
     connect_count |-> e.ConnectCount]

\* The JSON of a ConnectionInfo: port_forwarding is omitted when nil.
MarshalInfo(e) ==
    IF e.PortForwarding = NoPortForwarding
    THEN [host_name |-> e.HostName, last_connect |-> e.LastConnect,
          connect_count |-> e.ConnectCount]
    ELSE [host_name |-> e.HostName, last_connect |-> e.LastConnect,
          connect_count |-> e.ConnectCount,
          port_forwarding |-> MarshalPortForward(e.PortForwarding)]

JSONNull == [json |-> "null"]
JSONObject(members) == [json |-> "object", members |-> members]

\* json.MarshalIndent(hm.history): a nil map is written as null.
MarshalIndent(h, isNil) ==
    [json |-> "object",
     connections |-> IF isNil THEN JSONNull
                     ELSE JSONObject([k \in DOMAIN h |-> MarshalInfo(h[k])])]

\* The document {}: an object without the "connections" key.
EmptyDocument == [json |-> "object"]

\* A strict prefix of a document: what a write that fails part-way, or a
\* process that dies part-way, leaves in the file. It is not valid JSON.
Truncated == [json |-> "truncated"]

UnmarshalPortForward(j) ==
    [Type |-> j.type, LocalPort |-> j.local_port, RemoteHost |-> j.remote_host,
     RemotePort |-> j.remote_port, BindAddress |-> j.bind_address]

UnmarshalInfo(j) ==
    [HostName |-> j.host_name, LastConnect |-> j.last_connect,
     ConnectCount |-> j.connect_count,
     PortForwarding |-> IF "port_forwarding" \in DOMAIN j
                        THEN UnmarshalPortForward(j.port_forwarding)
                        ELSE NoPortForwarding]

\* json.Unmarshal(data, hm.history) into a history whose map is h: a syntax
\* error; or the map untouched when the document has no "connections" key,
\* nil when the key holds null, and the document's entries added otherwise.
Unmarshal(data, h) ==
    IF data.json = "truncated"
    THEN [err |-> TRUE, map |-> h, isNil |-> FALSE]
    ELSE IF "connections" \notin DOMAIN data
    THEN [err |-> FALSE, map |-> h, isNil |-> FALSE]
    ELSE IF data.connections.json = "null"
    THEN [err |-> FALSE, map |-> EmptyHistory, isNil |-> TRUE]
    ELSE LET m == data.connections.members IN
         [err |-> FALSE,
          map |-> [k \in DOMAIN h \cup DOMAIN m |->
                     IF k \in DOMAIN m THEN UnmarshalInfo(m[k]) ELSE h[k]],
          isNil |-> FALSE]

\* os.WriteFile(path, data, perm): perm is used only when the file is created.
WriteFile(file, data, perm) ==
    HistoryFile(data, IF file = NoFile THEN perm ELSE file.mode)

\* os.WriteFile failing: nothing written (the open failed), or the file
\* created or emptied and part of the data written.
WriteFileFailed(file, perm) == {file, WriteFile(file, Truncated, perm)}

\* The operation called last, its arguments (an identifier, a port
\* forwarding, the names of the current hosts) and the error it returned.
Call(name, id, cfg, cur) ==
    [name |-> name, id |-> id, cfg |-> cfg, cur |-> cur, err |-> "nil"]
NoOp == Call("none", <<>>, NoPortForwarding, {})

\* saveHistory of the map h: the document is written, or a system call fails
\* (MkdirAll, or WriteFile at some point) and the error is returned.
saveHistory(h, isNil, call) ==
    /\ legacy' = NoFile
    /\ \/ /\ doc' = WriteFile(doc, MarshalIndent(h, isNil), PrivateMode)
          /\ op' = call
          /\ UNCHANGED faults
       \/ /\ faults < MaxFaults
          /\ faults' = faults + 1
          /\ doc' \in WriteFileFailed(doc, PrivateMode)
          /\ op' = [call EXCEPT !.err = "error"]

\* A store is open and no Open is running.
Opened == opc = "idle" /\ hm \in {"open", "nil"}

\* An assignment to an entry of a nil map: the process aborts.
Panic(call) ==
    /\ hm' = "panicked"
    /\ op' = [call EXCEPT !.err = "panic"]
    /\ UNCHANGED <<history, now, calls, lastCall, origin, doc, faults, legacy>>

\* What the operations of an open store leave alone.
StoreKeeps == UNCHANGED <<oldDoc, opc, buf, nopens, clean>>

\* RecordConnection(hostName)
RecordConnection(hostName) ==
    /\ Opened
    /\ CanCount(hostName)
    /\ \/ /\ hm = "nil"
          /\ Panic(Call("RecordConnection", hostName, NoPortForwarding, {}))
       \/ /\ hm = "open"
          /\ \E t \in 0..MaxTime :
               /\ Clock(t)
               /\ now' = t
               /\ history' = Upsert(history, hostName, t)
               /\ lastCall' = [lastCall EXCEPT ![hostName] = t]
          /\ calls' = [calls EXCEPT ![hostName] = @ + 1]
          /\ origin' = [origin EXCEPT ![hostName] = @ \cup {"RecordConnection"}]
          /\ saveHistory(history', FALSE, Call("RecordConnection", hostName, NoPortForwarding, {}))
          /\ UNCHANGED hm
    /\ StoreKeeps
    /\ HistoryFrame

\* RecordManualConnection(conn): the same upsert under generateManualHostID.
RecordManualConnection(c) ==
    LET id == generateManualHostID(c) IN
    /\ Opened
    /\ CanCount(id)
    /\ \/ /\ hm = "nil"
          /\ Panic(Call("RecordManualConnection", id, NoPortForwarding, {}))
       \/ /\ hm = "open"
          /\ \E t \in 0..MaxTime :
               /\ Clock(t)
               /\ now' = t
               /\ history' = Upsert(history, id, t)
          /\ origin' = [origin EXCEPT ![id] = @ \cup {"RecordManualConnection"}]
          /\ saveHistory(history', FALSE, Call("RecordManualConnection", id, NoPortForwarding, {}))
          /\ UNCHANGED <<calls, lastCall, hm>>
    /\ StoreKeeps
    /\ HistoryFrame

\* An upsert that keeps the port forwarding an existing entry holds.
UpsertedForwarding_KeepOld(h, id, t, cfg) ==
    IF id \in DOMAIN h /\ h[id].PortForwarding # NoPortForwarding
    THEN Upserted(h, id, t)
    ELSE [Upserted(h, id, t) EXCEPT !.PortForwarding = cfg]

\* The ConnectionInfo RecordPortForwarding stores under key id: the upsert of
\* RecordConnection with PortForwarding pointing at the new configuration.
UpsertedForwarding(h, id, t, cfg) ==
    [Upserted(h, id, t) EXCEPT !.PortForwarding = cfg]

\* The port forwardings recorded: ssh -L 8080:localhost:80 and ssh -D 1080.
PortForwardConfigs ==
    {[Type |-> "local", LocalPort |-> "8080", RemoteHost |-> "localhost",
      RemotePort |-> "80", BindAddress |-> ""],
     [Type |-> "dynamic", LocalPort |-> "1080", RemoteHost |-> "",
      RemotePort |-> "", BindAddress |-> "127.0.0.1"]}

\* RecordPortForwarding(hostName, forwardType, localPort, remoteHost,
\* remotePort, bindAddress)
RecordPortForwarding(hostName, cfg) ==
    /\ Opened
    /\ CanCount(hostName)
    /\ \/ /\ hm = "nil"
          /\ Panic(Call("RecordPortForwarding", hostName, cfg, {}))
       \/ /\ hm = "open"
          /\ \E t \in 0..MaxTime :
               /\ Clock(t)
               /\ now' = t
               /\ history' =
                    [k \in DOMAIN history \cup {hostName} |->
                       IF k = hostName
                       THEN UpsertedForwarding(history, hostName, t, cfg)
                       ELSE history[k]]
          /\ origin' = [origin EXCEPT ![hostName] = @ \cup {"RecordPortForwarding"}]
          /\ saveHistory(history', FALSE,
                         Call("RecordPortForwarding", hostName, cfg, {}))
          /\ UNCHANGED <<calls, lastCall, hm>>
    /\ StoreKeeps
    /\ HistoryFrame

\* GetPortForwardingConfig: nil when the host has no entry.
GetPortForwardingConfig(h, hostName) ==
    IF hostName \in DOMAIN h THEN h[hostName].PortForwarding
    ELSE NoPortForwarding

\* A cleanup that keeps every key.
CleanupKeeps_All(h, currentHostNames) == DOMAIN h

\* The keys CleanupOldEntries keeps: those of currentHostNames.
CleanupKeeps(h, currentHostNames) == DOMAIN h \cap currentHostNames

\* CleanupOldEntries(currentHosts): delete every key that is not the name of
\* a current host, then save. Ranging over and deleting from a nil map do
\* nothing.
CleanupOldEntries(currentHostNames) ==
    LET keep == CleanupKeeps(history, currentHostNames) IN
    /\ Opened
    /\ history' = [k \in keep |-> history[k]]
    /\ calls' = [id \in Identifiers |-> IF id \in keep THEN calls[id] ELSE 0]
    /\ lastCall' = [id \in Identifiers |->
                      IF id \in keep THEN lastCall[id] ELSE ZeroTime]
    /\ origin' = [id \in Identifiers |-> IF id \in keep THEN origin[id] ELSE {}]
    /\ saveHistory(history', hm = "nil",
                   Call("CleanupOldEntries", <<>>, NoPortForwarding,
                        currentHostNames))
    /\ UNCHANGED <<now, hm>>
    /\ StoreKeeps
    /\ HistoryFrame

-----------------------------------------------------------------------------
(* NewHistoryManager and migrateOldHistoryFile, one system call at a step.
   The system calls that may fail are MkdirAll, ReadFile, WriteFile and
   Remove; Stat reports whether the file is there. *)

\* Bound: NewHistoryManager calls.
MaxOpens == 2

\* What a step of NewHistoryManager leaves alone.
OpenKeeps == UNCHANGED <<now, calls, lastCall, origin, nopens, legacy>>

\* A system call fails.
Fault == faults < MaxFaults /\ faults' = faults + 1 /\ clean' = FALSE

\* A process starts, none holding a store, and calls NewHistoryManager:
\* GetSSHMConfigDir and MkdirAll(configDir, 0755), either of which may return
\* an error.
OpenStart ==
    /\ opc = "idle"
    /\ hm \in {"closed", "failed", "panicked"}
    /\ nopens < MaxOpens
    /\ nopens' = nopens + 1
    /\ history' = EmptyHistory
    /\ \/ /\ opc' = "statNew" /\ hm' = "closed" /\ clean' = TRUE
          /\ op' = Call("NewHistoryManager", <<>>, NoPortForwarding, {})
          /\ UNCHANGED faults
       \/ /\ Fault
          /\ opc' = "idle" /\ hm' = "failed"
          /\ op' = [Call("NewHistoryManager", <<>>, NoPortForwarding, {}) EXCEPT !.err = "dir"]
    /\ UNCHANGED <<now, calls, lastCall, origin, legacy, doc, oldDoc, buf>>
    /\ HistoryFrame

\* A migration that does not look at the new path.
NewFileExists_Ignored(file) == FALSE

\* _, err := os.Stat(newHistoryPath); err == nil
NewFileExists(file) == file # NoFile

\* os.Stat(newHistoryPath): the new file exists, no migration.
MigrateStatNew ==
    /\ opc = "statNew"
    /\ opc' = IF NewFileExists(doc) THEN "load" ELSE "statOld"
    /\ UNCHANGED <<history, hm, doc, oldDoc, buf, faults, op, clean>>
    /\ OpenKeeps
    /\ HistoryFrame

\* os.Stat(oldHistoryPath): no old file, nothing to migrate.
MigrateStatOld ==
    /\ opc = "statOld"
    /\ opc' = IF oldDoc = NoFile THEN "load" ELSE "readOld"
    /\ UNCHANGED <<history, hm, doc, oldDoc, buf, faults, op, clean>>
    /\ OpenKeeps
    /\ HistoryFrame

\* os.ReadFile(oldHistoryPath): an error ends the migration.
MigrateReadOld ==
    /\ opc = "readOld"
    /\ \/ /\ buf' = oldDoc.data /\ opc' = "writeNew"
          /\ UNCHANGED <<faults, clean>>
       \/ /\ Fault
          /\ opc' = "load"
          /\ UNCHANGED buf
    /\ UNCHANGED <<history, hm, doc, oldDoc, op>>
    /\ OpenKeeps
    /\ HistoryFrame

\* os.WriteFile(newHistoryPath, data, 0644): an error ends the migration.
MigrateWriteNew ==
    /\ opc = "writeNew"
    /\ \/ /\ doc' = WriteFile(doc, buf, MigratedMode) /\ opc' = "removeOld"
          /\ UNCHANGED <<faults, clean>>
       \/ /\ Fault
          /\ doc' \in WriteFileFailed(doc, MigratedMode)
          /\ opc' = "load"
    /\ UNCHANGED <<history, hm, oldDoc, buf, op>>
    /\ OpenKeeps
    /\ HistoryFrame

\* os.Remove(oldHistoryPath): an error is ignored.
MigrateRemoveOld ==
    /\ opc = "removeOld"
    /\ \/ /\ oldDoc' = NoFile
          /\ UNCHANGED <<faults, clean>>
       \/ /\ Fault
          /\ UNCHANGED oldDoc
    /\ opc' = "load"
    /\ UNCHANGED <<history, hm, doc, buf, op>>
    /\ OpenKeeps
    /\ HistoryFrame

\* hm.loadHistory() and the end of NewHistoryManager: a missing file leaves
\* the empty map; a read error or a JSON error makes NewHistoryManager fail.
loadHistory ==
    /\ opc = "load"
    /\ opc' = "idle"
    /\ buf' = <<>>
    /\ \/ /\ doc = NoFile
          /\ hm' = "open"
          /\ UNCHANGED <<history, op, faults, clean>>
       \/ /\ doc # NoFile
          /\ Fault
          /\ hm' = "failed"
          /\ op' = [op EXCEPT !.err = "read"]
          /\ UNCHANGED history
       \/ /\ doc # NoFile
          /\ LET u == Unmarshal(doc.data, history) IN
             IF u.err
             THEN /\ hm' = "failed"
                  /\ op' = [op EXCEPT !.err = "syntax"]
                  /\ UNCHANGED history
             ELSE /\ hm' = IF u.isNil THEN "nil" ELSE "open"
                  /\ history' = u.map
                  /\ UNCHANGED op
          /\ UNCHANGED <<faults, clean>>
    /\ UNCHANGED <<doc, oldDoc>>
    /\ OpenKeeps
    /\ HistoryFrame

\* The process dies during NewHistoryManager; during the write of the new
\* file it may leave the file created and partly written.
Crash ==
    /\ opc # "idle"
    /\ opc' = "idle"
    /\ hm' = "closed"
    /\ buf' = <<>>
    /\ op' = Call("Crash", <<>>, NoPortForwarding, {})
    /\ doc' \in IF opc = "writeNew" THEN WriteFileFailed(doc, MigratedMode)
                ELSE {doc}
    /\ UNCHANGED <<history, oldDoc, faults, clean>>
    /\ OpenKeeps
    /\ HistoryFrame

\* The documents found on disk: {}, {"connections": null},
\* {"connections": {}}, and one holding an entry with a port forwarding.
StoredEntry ==
    [HostName |-> STR_web, LastConnect |-> 0, ConnectCount |-> 1,
     PortForwarding |-> CHOOSE c \in PortForwardConfigs : c.Type = "local"]

StoredDocuments ==
    {EmptyDocument,
     MarshalIndent(EmptyHistory, TRUE),
     MarshalIndent(EmptyHistory, FALSE),
     MarshalIndent([k \in {STR_web} |-> StoredEntry], FALSE)}

\* The documents found at the legacy path.
LegacyDocuments == {d \in StoredDocuments : "connections" \in DOMAIN d} \
                   {MarshalIndent(EmptyHistory, FALSE)}

\* The host and the ad-hoc connection the store is used with.
StoreHosts == {STR_web}
StoreManualConns == {c \in HistManualConns : c.Port = <<>>}

StoreNext ==
    \/ OpenStart
    \/ MigrateStatNew
    \/ MigrateStatOld
    \/ MigrateReadOld
    \/ MigrateWriteNew
    \/ MigrateRemoveOld
    \/ loadHistory
    \/ Crash
    \/ \E hostName \in StoreHosts : RecordConnection(hostName)
    \/ \E c \in StoreManualConns : RecordManualConnection(c)
    \/ \E cfg \in PortForwardConfigs : RecordPortForwarding(STR_web, cfg)
    \/ \E cur \in SUBSET StoreHosts : CleanupOldEntries(cur)

-----------------------------------------------------------------------------
(* Contexts: the config files of CONFIG_DIR and the persisted current context
   (src/sshm.bash, and src/unnamed/part_001 for the version that keeps the
   context in SSHM_CONTEXT). A path is <<directory, file name>>; the empty
   string is <<>>. *)

CONFIG_DIR           == "~/.config/sshm"
DEFAULT_CONFIG       == <<"~/.ssh", "config">>
CURRENT_CONTEXT_NAME == ".current_context"
EmptyString          == <<>>

\* "$CONFIG_DIR/$context"
ContextPath(context) == <<CONFIG_DIR, context>>

\* Context names given on the command line: none, two plain names, the name
\* the commands reserve for the default config, and the name of the file that
\* holds the current context.
ContextArgs == {"", "work", "prod", "default", CURRENT_CONTEXT_NAME}

\* SSHM_CONTEXT in the environment of the command: unset, or a context the
\* caller chose for the session.
Environments == {EmptyString, DEFAULT_CONFIG, ContextPath("work")}

EmptyDir     == <<>>
NoContextCmd == [cmd |-> "none", context |-> "", env |-> EmptyString, exit |-> 0]
ContextCmd(cmd, context, env, exit) ==
    [cmd |-> cmd, context |-> context, env |-> env, exit |-> exit]

\* [[ -f "$CONFIG_DIR/$context" ]]
IsFile(dir, context) == context \in DOMAIN dir

\* echo "$content" > "$CONFIG_DIR/$name", and touch of a missing file.
WriteTo(dir, name, content) ==
    [n \in DOMAIN dir \cup {name} |-> IF n = name THEN content ELSE dir[n]]

\* rm -f "$CONFIG_DIR/$name"
Remove(dir, name) == [n \in DOMAIN dir \ {name} |-> dir[n]]

\* $(cat "$CURRENT_CONTEXT_FILE"): the empty string when the file is missing.
CatCurrent(dir) ==
    IF IsFile(dir, CURRENT_CONTEXT_NAME) THEN dir[CURRENT_CONTEXT_NAME]
    ELSE EmptyString

\* The config file a command starts with: the content of the current-context
\* file, the default config without that file.
StartContext(dir) ==
    IF IsFile(dir, CURRENT_CONTEXT_NAME) THEN dir[CURRENT_CONTEXT_NAME]
    ELSE DEFAULT_CONFIG

\* A session that always starts from the persisted context.
SessionContext_Persisted(dir, env) == StartContext(dir)

\* SSHM_CONTEXT when a command of part_001 starts: the caller's, if set.
SessionContext(dir, env) ==
    IF env # EmptyString THEN env ELSE StartContext(dir)

\* A use that persists the path of any name, with or without a file.
UsedContext_Unchecked(dir, context) ==
    IF context = "default" THEN DEFAULT_CONFIG ELSE ContextPath(context)

\* context_use picks the path to persist; <<>> is its exit 1 for a name with
\* no file.
UsedContext(dir, context) ==
    IF context = "default" THEN DEFAULT_CONFIG
    ELSE IF ~IsFile(dir, context) THEN EmptyString
    ELSE ContextPath(context)

CtxKeeps ==
    UNCHANGED <<viewVars, sharedVars, argsVars, identVars, codecVars, histVars,
                storeVars, sortVars, cfgVars, formVars>>

\* context_use of both versions: the path is written to the current-context
\* file (part_001 also exports it for the rest of the command).
context_use(context) ==
    /\ IF context = "" \/ UsedContext(ctxDir, context) = EmptyString
       THEN /\ ctxLast' = ContextCmd("use", context, EmptyString, 1)
            /\ UNCHANGED ctxDir
       ELSE /\ ctxDir' = WriteTo(ctxDir, CURRENT_CONTEXT_NAME,
                                 UsedContext(ctxDir, context))
            /\ ctxLast' = ContextCmd("use", context, EmptyString, 0)
    /\ CtxKeeps

\* context_create of both versions: touch (and chmod 600 in part_001).
context_create(context) ==
    /\ IF context = "" \/ IsFile(ctxDir, context)
       THEN /\ ctxLast' = ContextCmd("create", context, EmptyString, 1)
            /\ UNCHANGED ctxDir
       ELSE /\ ctxDir' = WriteTo(ctxDir, context, EmptyString)
            /\ ctxLast' = ContextCmd("create", context, EmptyString, 0)
    /\ CtxKeeps

\* context_delete of sshm.bash: after the rm, the current-context file is
\* read and compared.
ssh_manager_context_delete(context) ==
    /\ IF context = "" \/ ~IsFile(ctxDir, context)
       THEN /\ ctxLast' = ContextCmd("delete", context, EmptyString, 1)
            /\ UNCHANGED ctxDir
       ELSE /\ LET removed == Remove(ctxDir, context)
               IN  ctxDir' = IF CatCurrent(removed) = ContextPath(context)
                             THEN WriteTo(removed, CURRENT_CONTEXT_NAME,
                                          DEFAULT_CONFIG)
                             ELSE removed
            /\ ctxLast' = ContextCmd("delete", context, EmptyString, 0)
    /\ CtxKeeps

\* context_delete of part_001: after the rm, SSHM_CONTEXT of the session is
\* compared.
sshm_context_delete(env, context) ==
    /\ IF context = "" \/ ~IsFile(ctxDir, context)
       THEN /\ ctxLast' = ContextCmd("delete", context, env, 1)
            /\ UNCHANGED ctxDir
       ELSE /\ LET removed == Remove(ctxDir, context)
               IN  ctxDir' = IF SessionContext(ctxDir, env) = ContextPath(context)
                             THEN WriteTo(removed, CURRENT_CONTEXT_NAME,
                                          DEFAULT_CONFIG)
                             ELSE removed
            /\ ctxLast' = ContextCmd("delete", context, env, 0)
    /\ CtxKeeps

ContextNext ==
    \/ \E context \in ContextArgs : context_use(context)
    \/ \E context \in ContextArgs : context_create(context)
    \/ \E context \in ContextArgs : ssh_manager_context_delete(context)
    \/ \E env \in Environments : \E context \in ContextArgs :
           sshm_context_delete(env, context)

-----------------------------------------------------------------------------
(* The history view (internal/ui/history_tui.go). The table of the view is
   the bubbles table: of it the model keeps the cursor, which a rebuilt table
   has at 0 and which up and down move within the rows. *)

\* strings.Contains
Contains(s, substr) ==
    \E i \in 0..(Len(s) - Len(substr)) : SubSeq(s, i + 1, i + Len(substr)) = substr

\* strings.ToLower on the letters the view meets.
LowerOf(ch) == IF ch = "W" THEN "w" ELSE ch
ToLower(s) == [i \in 1..Len(s) |-> LowerOf(s[i])]

\* Bounds of the view: rows in the history and characters typed in the search.
MaxRows == 2
MaxSearch == 1

\* The identifier of ssh u@h.
STR_manual_uh == generateManualHostID(
    [User |-> <<"u">>, Hostname |-> <<"h">>, Port |-> <<>>, Identity |-> <<>>])

\* Hosts of the config file with entries in the history, and all identifiers
\* the view lists.
ViewHosts == {STR_web, STR_manual_x}
ViewIdentifiers == ViewHosts \cup {STR_manual_uh}

\* The history the view was made from: one entry for each identifier.
StoreOf(connections) ==
    [id \in {connections[i].HostName : i \in 1..Len(connections)} |->
        [HostName |-> id, LastConnect |-> 0, ConnectCount |-> 1,
         PortForwarding |-> NoPortForwarding]]

\* A ConnectionInfo as the view reads it: Update looks at HostName only.
ViewConn(id) == [HostName |-> id]

\* Histories handed to NewHistoryModel: each identifier at most once.
ViewHistories ==
    {c \in UNION {[1..n -> {ViewConn(id) : id \in ViewIdentifiers}] :
                    n \in 0..MaxRows} :
        \A i, j \in 1..Len(c) : c[i] = c[j] => i = j}

NilForm == <<>>
NoSelection == <<>>
NoMsg   == [type |-> "none", key |-> "", ok |-> TRUE]
KeyMsg(k) == [type |-> "key", key |-> k, ok |-> TRUE]

\* NewHistoryModel(connections, ...)
NewHistoryModel(connections) ==
    [connections   |-> connections,
     filteredConns |-> connections,
     cursor        |-> 0,
     searchActive  |-> FALSE,
     searchInput   |-> <<>>,
     showAddForm   |-> FALSE,
     addForm       |-> NilForm,
     selectedConn  |-> NoSelection,
     err           |-> "",
     width         |-> 0,
     height        |-> 0]

NoModel == NewHistoryModel(<<>>)

Keys == {"a", "d", "q", "/", "enter", "esc", "ctrl+c", "ctrl+l", "up", "down",
         "W", "h"}
Typed == {"a", "d", "q", "/", "W", "h"}
WindowSizes == {[Width |-> 80, Height |-> 24], [Width |-> 100, Height |-> 30]}

\* Commands after which the program leaves the view.
Leaving == {"quit", "returnToList", "ssh", "panic"}

Clamp(v, low, high) ==
    LET atLeast == IF v > low THEN v ELSE low
    IN  IF atLeast < high THEN atLeast ELSE high

\* m.table.Update(msg) for a key: the cursor after it. Keys the table does
\* not bind leave it alone; "d" is its half page down.
TableUpdate(cursor, key, rows, height) ==
    CASE key = "up"   -> Clamp(cursor - 1, 0, rows - 1)
      [] key = "down" -> Clamp(cursor + 1, 0, rows - 1)
      [] key = "d"    -> Clamp(cursor + height \div 2, 0, rows - 1)
      [] OTHER        -> cursor

\* filterConnections: whether connection c stays under searchTerm.
Matches(c, searchTerm) ==
    \/ Contains(ToLower(c.HostName), searchTerm)
    \/ /\ IsManualConnection(c.HostName)
       /\ LET p == ParseManualConnectionID(c.HostName)
          IN  /\ p.ok
              /\ \/ Contains(ToLower(p.user), searchTerm)
                 \/ Contains(ToLower(p.hostname), searchTerm)

\* A filter that keeps every connection whatever the search text.
filterConnections_All(connections, value) == connections

filterConnections(connections, value) ==
    IF ToLower(value) = <<>> THEN connections
    ELSE SelectSeq(connections, LAMBDA c : Matches(c, ToLower(value)))

\* The test of the "a" key: only manual connections are added to the config.
CanPromote(hostName) == IsManualConnection(hostName)

\* createAddFormFromConnection: nil when the identifier does not parse.
createAddFormFromConnection(c) ==
    LET p == ParseManualConnectionID(c.HostName)
    IN  IF ~p.ok THEN NilForm
        ELSE [name     |-> <<>>,
              hostname |-> p.hostname,
              user     |-> p.user,
              port     |-> IF p.port # STR_22 /\ p.port # <<>> THEN p.port
                           ELSE <<>>]

\* connectToHistory: no command for a manual identifier that does not parse.
connectToHistory(c) ==
    IF IsManualConnection(c.HostName)
       /\ ~ParseManualConnectionID(c.HostName).ok
    THEN "none" ELSE "ssh"

FormActive == model.showAddForm /\ model.addForm # NilForm
\* The view takes the next message: the program has not left it, and the
\* command of "d" runs before another key is taken.
InView == viewCmd \notin Leaving \cup {"delete"}

\* A row is selected: the list is not empty and the cursor is on a row.
HasSelection ==
    /\ Len(model.filteredConns) > 0
    /\ model.cursor < Len(model.filteredConns)
Selected == model.filteredConns[model.cursor + 1]

ViewKeeps ==
    UNCHANGED <<ctxVars, sharedVars, argsVars, identVars, codecVars, histVars,
                storeVars, sortVars, cfgVars, formVars>>

\* Update(addFormSubmitMsg) while the form is shown.
FormSubmit(ok) ==
    /\ InView /\ FormActive
    /\ msg' = [type |-> "submit", key |-> "", ok |-> ok]
    /\ IF ok
       THEN /\ model' = [model EXCEPT !.showAddForm = FALSE, !.addForm = NilForm]
            /\ viewCmd' = "refreshHosts"
       ELSE /\ model' = [model EXCEPT !.err = "error"]
            /\ viewCmd' = "form"
    /\ ViewKeeps

\* Update(addFormCancelMsg) while the form is shown.
FormCancel ==
    /\ InView /\ FormActive
    /\ msg' = [type |-> "cancel", key |-> "", ok |-> TRUE]
    /\ model' = [model EXCEPT !.showAddForm = FALSE, !.addForm = NilForm]
    /\ viewCmd' = "none"
    /\ ViewKeeps

\* Update(KeyMsg) while the form is shown: the key goes to the form, whose
\* inputs are its own.
FormKey(k) ==
    /\ InView /\ FormActive
    /\ msg' = KeyMsg(k)
    /\ viewCmd' = "form"
    /\ UNCHANGED model
    /\ ViewKeeps

\* Update(tea.WindowSizeMsg)
WindowSize(size) ==
    /\ InView /\ ~FormActive
    /\ msg' = [type |-> "size", key |-> "", ok |-> TRUE]
    /\ model' = [model EXCEPT !.width = size.Width, !.height = size.Height,
                              !.cursor = 0]
    /\ viewCmd' = "none"
    /\ ViewKeeps

\* Update(KeyMsg) in search mode.
SearchKey(k) ==
    /\ InView /\ ~FormActive /\ model.searchActive
    /\ k \in Typed => Len(model.searchInput) < MaxSearch
    /\ msg' = KeyMsg(k)
    /\ viewCmd' = "none"
    /\ model' =
         CASE k \in {"esc", "ctrl+c"} ->
                [model EXCEPT !.searchActive = FALSE, !.searchInput = <<>>,
                              !.filteredConns = model.connections,
                              !.cursor = 0]
           [] k = "enter" ->
                [model EXCEPT !.searchActive = FALSE]
           [] OTHER ->
                LET value == IF k \in Typed THEN Append(model.searchInput, k)
                             ELSE model.searchInput
                IN  [model EXCEPT !.searchInput = value,
                                  !.filteredConns =
                                       filterConnections(model.connections, value),
                                  !.cursor = 0]
    /\ ViewKeeps

\* Update(KeyMsg) for "ctrl+c", "q", "esc" and "ctrl+l" outside search mode.
LeaveKey(k) ==
    /\ InView /\ ~FormActive /\ ~model.searchActive
    /\ k \in {"ctrl+c", "q", "esc", "ctrl+l"}
    /\ msg' = KeyMsg(k)
    /\ viewCmd' = IF k = "ctrl+l" THEN "returnToList" ELSE "quit"
    /\ UNCHANGED model
    /\ ViewKeeps

\* Update(KeyMsg) for "enter" and "d" outside search mode: a command for the
\* selected row, the table's own handling without one.
RowKey(k) ==
    /\ InView /\ ~FormActive /\ ~model.searchActive
    /\ k \in {"enter", "d"}
    /\ msg' = KeyMsg(k)
    /\ IF HasSelection
       THEN /\ viewCmd' = IF k = "d" THEN "delete" ELSE connectToHistory(Selected)
            /\ UNCHANGED model
       ELSE /\ viewCmd' = "none"
            /\ model' = [model EXCEPT !.cursor =
                           TableUpdate(model.cursor, k, Len(model.filteredConns),
                                       model.height)]
    /\ ViewKeeps

\* Update(KeyMsg "a") outside search mode. Init of a nil form is the form's
\* code: it returns its command or dereferences the nil pointer.
KeyA ==
    /\ InView /\ ~FormActive /\ ~model.searchActive
    /\ msg' = KeyMsg("a")
    /\ IF HasSelection /\ CanPromote(Selected.HostName)
       THEN /\ model' = [model EXCEPT
                           !.selectedConn = Selected,
                           !.showAddForm = TRUE,
                           !.addForm = createAddFormFromConnection(Selected)]
            /\ IF createAddFormFromConnection(Selected) = NilForm
               THEN viewCmd' \in {"blink", "panic"}
               ELSE viewCmd' = "blink"
       ELSE /\ model' = [model EXCEPT !.cursor =
                           TableUpdate(model.cursor, "a", Len(model.filteredConns),
                                       model.height)]
            /\ viewCmd' = "none"
    /\ ViewKeeps

\* Update(KeyMsg "/") outside search mode.
KeySlash ==
    /\ InView /\ ~FormActive /\ ~model.searchActive
    /\ msg' = KeyMsg("/")
    /\ model' = [model EXCEPT !.searchActive = TRUE]
    /\ viewCmd' = "blink"
    /\ ViewKeeps

\* Update(KeyMsg) for the keys Update leaves to the table.
TableKey(k) ==
    /\ InView /\ ~FormActive /\ ~model.searchActive
    /\ k \in {"up", "down", "W", "h"}
    /\ msg' = KeyMsg(k)
    /\ model' = [model EXCEPT !.cursor =
                   TableUpdate(model.cursor, k, Len(model.filteredConns),
                               model.height)]
    /\ viewCmd' = "none"
    /\ ViewKeeps

\* The command of "d" runs: deleteFromHistory opens the history and removes
\* nothing from it. Its message is the function tea.Quit itself, not the
\* tea.QuitMsg a call of it gives, and Update passes it to the table, which
\* has no use for it.
deleteFromHistory ==
    /\ viewCmd = "delete"
    /\ msg' = [type |-> "tea.Quit", key |-> "", ok |-> TRUE]
    /\ viewCmd' = "none"
    /\ UNCHANGED model
    /\ ViewKeeps

ViewNext ==
    \/ \E ok \in BOOLEAN : FormSubmit(ok)
    \/ FormCancel
    \/ \E k \in Keys : FormKey(k)
    \/ \E size \in WindowSizes : WindowSize(size)
    \/ \E k \in Keys : SearchKey(k)
    \/ \E k \in Keys : LeaveKey(k)
    \/ \E k \in Keys : RowKey(k)
    \/ KeyA
    \/ KeySlash
    \/ \E k \in Keys : TableKey(k)
    \/ deleteFromHistory

-----------------------------------------------------------------------------
(* Connecting again from the history view: the arguments connectToHistory
   hands to ssh, read back by ParseSSHArgs. *)

\* Arguments that never name the port.
connectArgs_NoPort(hostName, configFile) ==
    LET p == ParseManualConnectionID(hostName)
    IN  IF ~IsManualConnection(hostName)
        THEN (IF configFile # <<>> THEN <<STR_F, configFile>> ELSE <<>>)
             \o <<hostName>>
        ELSE IF ~p.ok THEN <<>>
        ELSE IF p.user # <<>> THEN <<p.user \o <<"@">> \o p.hostname>>
        ELSE <<p.hostname>>

\* sshArgs of connectToHistory; <<>> where it returns no command.
connectArgs(hostName, configFile) ==
    LET p == ParseManualConnectionID(hostName)
    IN  IF ~IsManualConnection(hostName)
        THEN (IF configFile # <<>> THEN <<STR_F, configFile>> ELSE <<>>)
             \o <<hostName>>
        ELSE IF ~p.ok THEN <<>>
        ELSE (IF p.port # <<>> /\ p.port # STR_22 THEN <<STR_p, p.port>>
              ELSE <<>>)
             \o (IF p.user # <<>> THEN <<p.user \o <<"@">> \o p.hostname>>
                 ELSE <<p.hostname>>)

\* The connections recorded before: users and hostnames with the separators
\* and a dash in them, ports defaulted, given and holding a separator.
ReconnectAlphabet == {"a", "@", ":", "-"}
ReconnectConns ==
    [User     : StrUpTo(ReconnectAlphabet, MaxStrLen) \cup {STR_default},
     Hostname : StrUpTo(ReconnectAlphabet, MaxStrLen),
     Port     : {<<>>, STR_22, <<"8">>, <<":", "8">>},
     Identity : {<<>>}]

\* ssh is run from the history view on the entry hostID, with no config file
\* chosen, and its arguments are parsed as those of a manual connection.
Reconnect ==
    /\ cstep = "decoded"
    /\ args' = connectArgs(hostID, <<>>)
    /\ parsedArgs' = ParseSSHArgs(args', osUser)
    /\ cstep' = "reconnected"
    /\ UNCHANGED <<conn, hostID, parsed, osUser, manualCmd>>
    /\ UNCHANGED <<ctxVars, viewVars, sharedVars, identVars, histVars,
                   storeVars, sortVars, cfgVars, formVars>>

ReconnectNext == Encode \/ Decode \/ Reconnect

-----------------------------------------------------------------------------
(* Two processes, each with its own HistoryManager, on one history document.
   No system call fails and NewHistoryManager is taken as one step. *)

Processes == {1, 2}
Other(i) == 3 - i

\* The hosts the two processes connect to.
SharedHosts == {STR_web, STR_db}

ClosedStore  == [open |-> FALSE, connections |-> EmptyHistory]
OpenedStore(h) == [open |-> TRUE, connections |-> h]
NoStores     == [i \in Processes |-> ClosedStore]
NoneMissed   == [i \in Processes |-> {}]
NoneRecorded == [id \in SharedHosts |-> 0]

\* A save that adds the map to the entries the document holds.
SavedDocument_Merged(file, h) ==
    IF file = NoFile THEN MarshalIndent(h, FALSE)
    ELSE MarshalIndent(Unmarshal(file.data, h).map, FALSE)

\* What saveHistory writes: the JSON of the map of the process, whatever the
\* document holds.
SavedDocument(file, h) == MarshalIndent(h, FALSE)

SharedKeeps ==
    UNCHANGED <<history, calls, lastCall, origin, hm, oldDoc, opc, buf,
                faults, nopens, op, legacy, clean, ctxVars, viewVars, argsVars,
                identVars, codecVars, sortVars, cfgVars, formVars>>

\* NewHistoryManager() in process i: the document is loaded into a new map.
OpenStore(i) ==
    /\ ~stores[i].open
    /\ stores' = [stores EXCEPT ![i] =
                    IF doc = NoFile THEN OpenedStore(EmptyHistory)
                    ELSE OpenedStore(Unmarshal(doc.data, EmptyHistory).map)]
    /\ missed' = [missed EXCEPT ![i] = {}]
    /\ UNCHANGED <<doc, now, lastWriter, recorded>>
    /\ SharedKeeps

\* RecordConnection(hostName) in process i: the upsert in its map and
\* saveHistory.
RecordBy(i, hostName) ==
    /\ stores[i].open
    /\ recorded[hostName] < MaxCount
    /\ \E t \in 0..MaxTime :
         /\ Clock(t)
         /\ now' = t
         /\ stores' = [stores EXCEPT ![i] =
                         OpenedStore(Upsert(stores[i].connections, hostName, t))]
    /\ doc' = WriteFile(doc, SavedDocument(doc, stores'[i].connections),
                        PrivateMode)
    /\ lastWriter' = i
    /\ recorded' = [recorded EXCEPT ![hostName] = @ + 1]
    /\ missed' = [missed EXCEPT ![Other(i)] =
                    IF ~stores[Other(i)].open THEN {}
                    ELSE @ \cup {hostName}]
    /\ SharedKeeps

\* Process i ends.
CloseStore(i) ==
    /\ stores[i].open
    /\ stores' = [stores EXCEPT ![i] = ClosedStore]
    /\ missed' = [missed EXCEPT ![i] = {}]
    /\ lastWriter' = IF lastWriter = i THEN 0 ELSE lastWriter
    /\ UNCHANGED <<doc, now, recorded>>
    /\ SharedKeeps

SharedNext ==
    \/ \E i \in Processes : OpenStore(i)
    \/ \E i \in Processes : \E hostName \in SharedHosts : RecordBy(i, hostName)
    \/ \E i \in Processes : CloseStore(i)

-----------------------------------------------------------------------------
(* Sorting the host list by history (SortHostsByLastUsed, SortHostsByMostUsed) *)

\* The bytes of the host names, in byte order.
ByteOrder == <<":", "a", "b", "d", "e", "l", "m", "n", "u", "w", "x">>

ByteOf(c) == CHOOSE i \in 1..Len(ByteOrder) : ByteOrder[i] = c

\* Go's s < t on strings: byte-wise lexicographic order.
RECURSIVE StringLess(_, _)
StringLess(s, t) ==
    IF t = <<>> THEN FALSE
    ELSE IF s = <<>> THEN TRUE
    ELSE IF Head(s) # Head(t) THEN ByteOf(Head(s)) < ByteOf(Head(t))
    ELSE StringLess(Tail(s), Tail(t))

\* A comparison that holds for the earlier time.
After_Earlier(timeI, timeJ) == timeI < timeJ

\* timeI.After(timeJ)
After(timeI, timeJ) == timeI > timeJ

\* A comparison that puts the older connection first.
LessByLastUsed_Oldest(h, nameI, nameJ) ==
    LET lastI == GetLastConnectionTime(h, nameI)
        lastJ == GetLastConnectionTime(h, nameJ)
    IN  IF lastI[2] /\ lastJ[2] THEN After(lastJ[1], lastI[1])
        ELSE IF lastI[2] /\ ~lastJ[2] THEN TRUE
        ELSE IF ~lastI[2] /\ lastJ[2] THEN FALSE
        ELSE StringLess(nameI, nameJ)

\* The less function of SortHostsByLastUsed.
LessByLastUsed(h, nameI, nameJ) ==
    LET lastI == GetLastConnectionTime(h, nameI)
        lastJ == GetLastConnectionTime(h, nameJ)
    IN  IF lastI[2] /\ lastJ[2] THEN After(lastI[1], lastJ[1])
        ELSE IF lastI[2] /\ ~lastJ[2] THEN TRUE
        ELSE IF ~lastI[2] /\ lastJ[2] THEN FALSE
        ELSE StringLess(nameI, nameJ)

\* The less function of SortHostsByMostUsed.
LessByMostUsed(h, nameI, nameJ) ==
    LET countI == GetConnectionCount(h, nameI)
        countJ == GetConnectionCount(h, nameJ)
        lastI  == GetLastConnectionTime(h, nameI)
        lastJ  == GetLastConnectionTime(h, nameJ)
    IN  IF countI # countJ THEN countI > countJ
        ELSE IF lastI[2] /\ lastJ[2] THEN After(lastI[1], lastJ[1])
        ELSE StringLess(nameI, nameJ)

\* The orders of n elements.
Orderings(n) ==
    {p \in [1..n -> 1..n] : \A i, j \in 1..n : p[i] = p[j] => i = j}

\* sort.Slice(sorted, less) on a copy of the list, less given as the set of
\* the pairs <<x, y>> with x less than y: the elements in an order in which
\* no element is less than one before it. The order of elements of which
\* neither is less than the other is not guaranteed.
SortSlice(list, less) ==
    {[i \in 1..Len(list) |-> list[p[i]]] : p \in
       {q \in Orderings(Len(list)) :
          \A i, j \in 1..Len(list) :
              i < j => <<list[q[j]], list[q[i]]>> \notin less}}

\* Bound: hosts in the list given to a sort.
MaxHosts == 3

\* The host lists: distinct names of the config file, in any order.
HostLists ==
    {l \in UNION {[1..n -> HostNames] : n \in 0..MaxHosts} :
       \A i, j \in 1..Len(l) : l[i] = l[j] => i = j}

\* The registries the record operations can build over the host names.
SortHistories ==
    UNION {[D -> [HostName : HostNames, LastConnect : 0..MaxTime,
                  ConnectCount : 1..MaxCount,
                  PortForwarding : {NoPortForwarding}]] : D \in SUBSET HostNames}

\* SortHostsByLastUsed(hosts)
SortHostsByLastUsed ==
    /\ sortBy = "none"
    /\ sorted' \in SortSlice(hosts, {p \in HostNames \X HostNames :
                                        LessByLastUsed(history, p[1], p[2])})
    /\ sortBy' = "LastUsed"
    /\ UNCHANGED hosts
    /\ SortFrame

\* SortHostsByMostUsed(hosts)
SortHostsByMostUsed ==
    /\ sortBy = "none"
    /\ sorted' \in SortSlice(hosts, {p \in HostNames \X HostNames :
                                        LessByMostUsed(history, p[1], p[2])})
    /\ sortBy' = "MostUsed"
    /\ UNCHANGED hosts
    /\ SortFrame

\* The values of the map in some order: what ranging over it appends.
RangeOver(h) ==
    LET n == Cardinality(DOMAIN h)
        keys == CHOOSE f \in [1..n -> DOMAIN h] :
                    \A i, j \in 1..n : f[i] = f[j] => i = j
    IN  [i \in 1..n |-> h[keys[i]]]

\* GetAllConnectionsInfo(): the values of the map, sorted with
\* connections[i].LastConnect.After(connections[j].LastConnect) as less.
GetAllConnectionsInfo ==
    /\ sortBy = "none"
    /\ LET connections == RangeOver(history)
           all == {connections[i] : i \in 1..Len(connections)}
       IN  sorted' \in SortSlice(connections,
                                 {p \in all \X all :
                                    After(p[1].LastConnect, p[2].LastConnect)})
    /\ sortBy' = "All"
    /\ UNCHANGED hosts
    /\ SortFrame

SortNext ==
    \/ SortHostsByLastUsed
    \/ SortHostsByMostUsed
    \/ GetAllConnectionsInfo

-----------------------------------------------------------------------------
(* Config file and the text tools the scripts run on it *)

\* A config file is a sequence of lines and a line the tuple of its words:
\* <<>> is a blank line, <<"Host", "a", "b">> is "Host a b" and
\* <<"HostName", "h1">> is "    HostName h1".
Blank == <<>>

\* The line the patterns /^Host $host$/ match.
HostLine(host) == <<"Host", host>>

\* sed '/^Host $host$/,/^$/d': the lines sed prints from line i on. A range
\* opens at a matching line and closes at the first blank line after it, or at
\* the end of the file; every line of a range is deleted.
RECURSIVE SedDeleteFrom(_, _, _, _)
SedDeleteFrom(lines, i, inRange, host) ==
    IF i > Len(lines) THEN <<>>
    ELSE IF inRange THEN SedDeleteFrom(lines, i + 1, lines[i] # Blank, host)
    ELSE IF lines[i] = HostLine(host)
         THEN SedDeleteFrom(lines, i + 1, TRUE, host)
    ELSE <<lines[i]>> \o SedDeleteFrom(lines, i + 1, FALSE, host)

SedDelete(lines, host) == SedDeleteFrom(lines, 1, FALSE, host)

\* awk '/^Host $host$/,/^$/': the lines of the same ranges, printed.
RECURSIVE AwkRangeFrom(_, _, _, _)
AwkRangeFrom(lines, i, inRange, host) ==
    IF i > Len(lines) THEN <<>>
    ELSE IF inRange
         THEN <<lines[i]>> \o AwkRangeFrom(lines, i + 1, lines[i] # Blank, host)
    ELSE IF lines[i] = HostLine(host)
         THEN <<lines[i]>> \o AwkRangeFrom(lines, i + 1, TRUE, host)
    ELSE AwkRangeFrom(lines, i + 1, FALSE, host)

\* $(...) drops the trailing newlines of what the command printed.
RECURSIVE StripTrailingBlank(_)
StripTrailingBlank(lines) ==
    IF lines # <<>> /\ lines[Len(lines)] = Blank
    THEN StripTrailingBlank(SubSeq(lines, 1, Len(lines) - 1))
    ELSE lines

\* host_info=$(awk '/^Host $host$/,/^$/' "$config_file")
HostInfo(lines, host) == StripTrailingBlank(AwkRangeFrom(lines, 1, FALSE, host))

\* echo "$host_info" | awk '/Key/ {print $2}': the second word of every line
\* of host_info that holds the key, one per output line.
RECURSIVE AwkField(_, _)
AwkField(info, key) ==
    IF info = <<>> THEN <<>>
    ELSE (IF Len(info[1]) >= 2 /\ info[1][1] = key THEN <<info[1][2]>> ELSE <<>>)
         \o AwkField(Tail(info), key)

\* echo "    Key $value": a value of several lines spills onto lines of its
\* own, an empty one leaves the key alone on its line.
EchoProp(key, value) ==
    IF value = <<>> THEN << <<key>> >>
    ELSE << <<key, value[1]>> >>
         \o [i \in 1..(Len(value) - 1) |-> <<value[i + 1]>>]

\* ${answer:-$current}
OrDefault(answer, current) == IF answer = "" THEN current ELSE <<answer>>

\* [[ -s file ]]: the file exists and is not empty.
NonEmptyFile(f) == f # <<>> /\ f[1] # <<>>

Absent == <<>>
File(content) == <<content>>


-----------------------------------------------------------------------------
(* The scripts' config writers: sshm_delete and sshm_edit (with backup and   *)
(* temporary file), and ssh_manager_delete and ssh_manager_edit (the form    *)
(* of sshm.bash, without them).                                              *)

\* default_identity_file when ~/.ssh holds no key.
DefaultIdentity == "~/.ssh/id_rsa"

\* The values the script read from host_info.
CurrentValues(info) ==
    [hostname  |-> AwkField(info, "HostName"),
     user      |-> AwkField(info, "User"),
     port      |-> AwkField(info, "Port"),
     identity  |-> AwkField(info, "IdentityFile"),
     proxyjump |-> AwkField(info, "ProxyJump")]

NoValues == CurrentValues(<<>>)

\* The answers to the prompts of sshm edit; "" is the Enter key alone.
EditAnswers ==
    [hostname : {"", "h9"}, user : {""}, port : {"", "2222"},
     identity : {""}, proxyjump : {"", "j"}]

NoAnswers ==
    [hostname |-> "", user |-> "", port |-> "", identity |-> "",
     proxyjump |-> ""]

\* The new_* variables after the prompts.
NewValues(ans, cur) ==
    [hostname  |-> OrDefault(ans.hostname, cur.hostname),
     user      |-> OrDefault(ans.user, cur.user),
     port      |-> OrDefault(ans.port, IF cur.port = <<>> THEN <<"22">>
                                       ELSE cur.port),
     identity  |-> OrDefault(ans.identity,
                             IF cur.identity = <<>> THEN <<DefaultIdentity>>
                             ELSE cur.identity),
     proxyjump |-> IF cur.proxyjump # <<>>
                   THEN OrDefault(ans.proxyjump, cur.proxyjump)
                   ELSE IF ans.proxyjump = "" THEN <<>>
                        ELSE <<ans.proxyjump>>]

\* The block sshm_edit appends: { echo ""; echo "Host $host"; ... }
NewBlock(host, ans, cur) ==
    LET new == NewValues(ans, cur) IN
    <<Blank, HostLine(host)>>
    \o EchoProp("HostName", new.hostname)
    \o EchoProp("User", new.user)
    \o (IF new.port # <<"22">> THEN EchoProp("Port", new.port) ELSE <<>>)
    \o (IF new.identity # <<DefaultIdentity>>
        THEN EchoProp("IdentityFile", new.identity) ELSE <<>>)
    \o (IF new.proxyjump # <<>> THEN EchoProp("ProxyJump", new.proxyjump)
        ELSE <<>>)

\* The block ssh_manager_edit appends: it has no ProxyJump prompt.
OldNewBlock(host, ans, cur) ==
    LET new == NewValues(ans, cur) IN
    <<Blank, HostLine(host)>>
    \o EchoProp("HostName", new.hostname)
    \o EchoProp("User", new.user)
    \o (IF new.port # <<"22">> THEN EchoProp("Port", new.port) ELSE <<>>)
    \o (IF new.identity # <<DefaultIdentity>>
        THEN EchoProp("IdentityFile", new.identity) ELSE <<>>)

\* Config files the scripts are run on.
BlockA  == << <<"Host", "a">>, <<"HostName", "h1">>, <<"User", "u1">> >>
BlockB  == << <<"Host", "b">>, <<"HostName", "h2">>, <<"User", "u2">> >>
BlockC  == << <<"Host", "c">>, <<"HostName", "h3">>, <<"User", "u3">> >>
BlockAB == << <<"Host", "a", "b">>, <<"HostName", "h1">>, <<"User", "u1">> >>

ConfigOnlyA    == BlockA
ConfigAddedA   == <<Blank>> \o BlockA
ConfigSeparate == BlockA \o <<Blank>> \o BlockB
ConfigAdjacent == BlockA \o BlockB
ConfigGrouped  == BlockAB \o <<Blank>> \o BlockC
ConfigMixed    == BlockC \o <<Blank>> \o BlockA \o BlockB

InitialConfigs ==
    {ConfigOnlyA, ConfigAddedA, ConfigSeparate, ConfigAdjacent, ConfigGrouped,
     ConfigMixed}

CfgHosts == {"a", "b", "c"}

\* Bound: the number of commands run on the file.
MaxCommands == 3

\* A command starts: the script is at rest and the bound allows one more.
Start == pc = "idle" /\ ncmds < MaxCommands /\ ncmds' = ncmds + 1

NoCommand == [cmd |-> "none", host |-> "", ans |-> NoAnswers, cur |-> NoValues]

\* ---- sshm_delete ----

\* cp "$config_file" "$config_file.bak"
sshm_delete_backup(host) ==
    /\ Start
    /\ bak' = File(config)
    /\ arg' = [cmd |-> "sshm_delete", host |-> host, ans |-> NoAnswers,
               cur |-> NoValues]
    /\ pre' = config
    /\ result' = "none"
    /\ pc' = "delete_sed"
    /\ UNCHANGED <<config, tmp>>
    /\ ConfigFrame

\* sed '/^Host $host$/,/^$/d' "$config_file" > "$tmp_file"
sshm_delete_sed ==
    /\ pc = "delete_sed"
    /\ tmp' = File(SedDelete(config, arg.host))
    /\ pc' = "delete_test"
    /\ UNCHANGED <<config, bak, arg, pre, result, ncmds>>
    /\ ConfigFrame

\* [[ -s "$tmp_file" ]] && mv "$tmp_file" "$config_file"
sshm_delete_mv ==
    /\ pc = "delete_test"
    /\ NonEmptyFile(tmp)
    /\ config' = tmp[1]
    /\ tmp' = Absent
    /\ pc' = "rm_bak"
    /\ UNCHANGED <<bak, arg, pre, result, ncmds>>
    /\ ConfigFrame

\* else: mv "$config_file.bak" "$config_file"
sshm_delete_restore ==
    /\ pc = "delete_test"
    /\ ~NonEmptyFile(tmp)
    /\ config' = bak[1]
    /\ bak' = Absent
    /\ pc' = "rm_tmp"
    /\ UNCHANGED <<tmp, arg, pre, result, ncmds>>
    /\ ConfigFrame

\* ---- sshm_edit ----

\* The host is not found: exit 1 before anything is written.
sshm_edit_notfound(host) ==
    /\ Start
    /\ HostInfo(config, host) = <<>>
    /\ arg' = [cmd |-> "sshm_edit", host |-> host, ans |-> NoAnswers,
               cur |-> NoValues]
    /\ pre' = config
    /\ result' = "error"
    /\ UNCHANGED <<config, bak, tmp, pc>>
    /\ ConfigFrame

\* The current values are read, the backup is made, the prompts are answered.
sshm_edit_backup(host, ans) ==
    /\ Start
    /\ HostInfo(config, host) # <<>>
    /\ bak' = File(config)
    /\ arg' = [cmd |-> "sshm_edit", host |-> host, ans |-> ans,
               cur |-> CurrentValues(HostInfo(config, host))]
    /\ pre' = config
    /\ result' = "none"
    /\ pc' = "edit_sed"
    /\ UNCHANGED <<config, tmp>>
    /\ ConfigFrame

\* sed '/^Host $host$/,/^$/d' "$config_file" > "$tmp_file"
sshm_edit_sed ==
    /\ pc = "edit_sed"
    /\ tmp' = File(SedDelete(config, arg.host))
    /\ pc' = "edit_test"
    /\ UNCHANGED <<config, bak, arg, pre, result, ncmds>>
    /\ ConfigFrame

\* [[ ! -s "$tmp_file" ]]: mv "$config_file.bak" "$config_file"
sshm_edit_restore ==
    /\ pc = "edit_test"
    /\ ~NonEmptyFile(tmp)
    /\ config' = bak[1]
    /\ bak' = Absent
    /\ pc' = "rm_tmp"
    /\ UNCHANGED <<tmp, arg, pre, result, ncmds>>
    /\ ConfigFrame

\* { echo ""; echo "Host $host"; ... } >> "$tmp_file"
sshm_edit_append ==
    /\ pc = "edit_test"
    /\ NonEmptyFile(tmp)
    /\ tmp' = File(tmp[1] \o NewBlock(arg.host, arg.ans, arg.cur))
    /\ pc' = "edit_mv"
    /\ UNCHANGED <<config, bak, arg, pre, result, ncmds>>
    /\ ConfigFrame

\* mv "$tmp_file" "$config_file"
sshm_edit_mv ==
    /\ pc = "edit_mv"
    /\ config' = tmp[1]
    /\ tmp' = Absent
    /\ pc' = "rm_bak"
    /\ UNCHANGED <<bak, arg, pre, result, ncmds>>
    /\ ConfigFrame

\* rm -f "$config_file.bak", the last step of a successful delete or edit.
sshm_rm_bak ==
    /\ pc = "rm_bak"
    /\ bak' = Absent
    /\ result' = "ok"
    /\ pc' = "idle"
    /\ UNCHANGED <<config, tmp, arg, pre, ncmds>>
    /\ ConfigFrame

\* rm -f "$tmp_file"; exit 1, the last step of a cancelled delete or edit.
sshm_rm_tmp ==
    /\ pc = "rm_tmp"
    /\ tmp' = Absent
    /\ result' = "error"
    /\ pc' = "idle"
    /\ UNCHANGED <<config, bak, arg, pre, ncmds>>
    /\ ConfigFrame

\* ---- ssh_manager_delete ----

\* sed ... > "$tmp_file"
ssh_manager_delete_sed(host) ==
    /\ Start
    /\ tmp' = File(SedDelete(config, host))
    /\ arg' = [cmd |-> "ssh_manager_delete", host |-> host, ans |-> NoAnswers,
               cur |-> NoValues]
    /\ pre' = config
    /\ result' = "none"
    /\ pc' = "old_delete_mv"
    /\ UNCHANGED <<config, bak>>
    /\ ConfigFrame

\* mv "$tmp_file" "$config_file", with no test of the result.
ssh_manager_delete_mv ==
    /\ pc = "old_delete_mv"
    /\ config' = tmp[1]
    /\ tmp' = Absent
    /\ result' = "ok"
    /\ pc' = "idle"
    /\ UNCHANGED <<bak, arg, pre, ncmds>>
    /\ ConfigFrame

\* ---- ssh_manager_edit ----

ssh_manager_edit_notfound(host) ==
    /\ Start
    /\ HostInfo(config, host) = <<>>
    /\ arg' = [cmd |-> "ssh_manager_edit", host |-> host, ans |-> NoAnswers,
               cur |-> NoValues]
    /\ pre' = config
    /\ result' = "error"
    /\ UNCHANGED <<config, bak, tmp, pc>>
    /\ ConfigFrame

\* The current values are read and the prompts answered; then
\* ssh_manager_delete runs: sed ... > "$tmp_file"
ssh_manager_edit_sed(host, ans) ==
    /\ Start
    /\ HostInfo(config, host) # <<>>
    /\ ans.proxyjump = ""
    /\ tmp' = File(SedDelete(config, host))
    /\ arg' = [cmd |-> "ssh_manager_edit", host |-> host, ans |-> ans,
               cur |-> CurrentValues(HostInfo(config, host))]
    /\ pre' = config
    /\ result' = "none"
    /\ pc' = "old_edit_mv"
    /\ UNCHANGED <<config, bak>>
    /\ ConfigFrame

\* ssh_manager_delete: mv "$tmp_file" "$config_file"
ssh_manager_edit_mv ==
    /\ pc = "old_edit_mv"
    /\ config' = tmp[1]
    /\ tmp' = Absent
    /\ pc' = "old_edit_append"
    /\ UNCHANGED <<bak, arg, pre, result, ncmds>>
    /\ ConfigFrame

\* { echo ""; echo "Host $host"; ... } >> "$config_file"
ssh_manager_edit_append ==
    /\ pc = "old_edit_append"
    /\ config' = config \o OldNewBlock(arg.host, arg.ans, arg.cur)
    /\ result' = "ok"
    /\ pc' = "idle"
    /\ UNCHANGED <<bak, tmp, arg, pre, ncmds>>
    /\ ConfigFrame

\* The script is killed, or the machine stops, between two commands.
Kill ==
    /\ pc \notin {"idle", "off"}
    /\ pc' = "idle"
    /\ result' = "killed"
    /\ UNCHANGED <<config, bak, tmp, arg, pre, ncmds>>
    /\ ConfigFrame

\* What the running (or last) command writes when it runs to its end.
PostContent ==
    CASE arg.cmd \in {"sshm_delete", "ssh_manager_delete"} ->
           SedDelete(pre, arg.host)
      [] arg.cmd = "sshm_edit" /\ HostInfo(pre, arg.host) # <<>> ->
           SedDelete(pre, arg.host) \o NewBlock(arg.host, arg.ans, arg.cur)
      [] arg.cmd = "ssh_manager_edit" /\ HostInfo(pre, arg.host) # <<>> ->
           SedDelete(pre, arg.host) \o OldNewBlock(arg.host, arg.ans, arg.cur)
      [] OTHER -> pre

ConfigNext ==
    \/ \E host \in CfgHosts : sshm_delete_backup(host)
    \/ sshm_delete_sed
    \/ sshm_delete_mv
    \/ sshm_delete_restore
    \/ \E host \in CfgHosts : sshm_edit_notfound(host)
    \/ \E host \in CfgHosts, ans \in EditAnswers : sshm_edit_backup(host, ans)
    \/ sshm_edit_sed
    \/ sshm_edit_restore
    \/ sshm_edit_append
    \/ sshm_edit_mv
    \/ sshm_rm_bak
    \/ sshm_rm_tmp
    \/ \E host \in CfgHosts : ssh_manager_delete_sed(host)
    \/ ssh_manager_delete_mv
    \/ \E host \in CfgHosts : ssh_manager_edit_notfound(host)
    \/ \E host \in CfgHosts, ans \in EditAnswers : ssh_manager_edit_sed(host, ans)
    \/ ssh_manager_edit_mv
    \/ ssh_manager_edit_append
    \/ Kill

-----------------------------------------------------------------------------
(* The config package (ParseSSHConfigFile, GetSSHHostFromFile,               *)
(* IsPartOfMultiHostDeclaration, UpdateSSHHostInFile, UpdateMultiHostBlock), *)
(* as the specification describes it: a block is a Host line and the lines   *)
(* after it up to the next blank line or the next Host line.                 *)

ConfigPath == "~/.ssh/config"

IsHostLine(line) == Len(line) >= 2 /\ line[1] = "Host"

\* Words of a Host line that are comments, not names.
CommentWords == {"#"}

\* The names a Host line declares.
NamesOf(line) == SelectSeq(Tail(line), LAMBDA w : w \notin CommentWords)

\* The last line of the block whose Host line is line i.
RECURSIVE BlockEnd(_, _)
BlockEnd(lines, i) ==
    IF i + 1 > Len(lines) \/ lines[i + 1] = Blank \/ IsHostLine(lines[i + 1])
    THEN i
    ELSE BlockEnd(lines, i + 1)

\* The indices of the Host lines, in file order.
HostLineIndices(lines) ==
    SelectSeq([i \in 1..Len(lines) |-> i], LAMBDA i : IsHostLine(lines[i]))

\* The fields of the block at lines i..j: key -> value of its first line.
BlockFields(lines, i, j) ==
    LET props == {n \in (i + 1)..j : Len(lines[n]) >= 2}
        keys  == {lines[n][1] : n \in props}
    IN  [k \in keys |->
           lines[CHOOSE n \in props :
                   /\ lines[n][1] = k
                   /\ \A m \in props : lines[m][1] = k => n <= m][2]]

\* The blocks of a file, in file order.
HostBlocks(lines) ==
    LET idx == HostLineIndices(lines) IN
    [b \in 1..Len(idx) |->
       [names  |-> NamesOf(lines[idx[b]]),
        first  |-> idx[b],
        last   |-> BlockEnd(lines, idx[b]),
        fields |-> BlockFields(lines, idx[b], BlockEnd(lines, idx[b]))]]

FieldOf(fields, key) == IF key \in DOMAIN fields THEN fields[key] ELSE ""

\* The HostRecord of one name of a block.
SSHHost(name, fields, sourceFile) ==
    [Name          |-> name,
     Hostname      |-> FieldOf(fields, "HostName"),
     User          |-> FieldOf(fields, "User"),
     Port          |-> FieldOf(fields, "Port"),
     Identity      |-> FieldOf(fields, "IdentityFile"),
     ProxyJump     |-> FieldOf(fields, "ProxyJump"),
     Options       |-> FieldOf(fields, "Options"),
     RemoteCommand |-> FieldOf(fields, "RemoteCommand"),
     RequestTTY    |-> FieldOf(fields, "RequestTTY"),
     Tags          |-> IF "Tags" \in DOMAIN fields THEN <<fields["Tags"]>>
                       ELSE <<>>,
     SourceFile    |-> sourceFile]

\* The records of one block: one per name.
BlockRecords(block, path) ==
    [n \in 1..Len(block.names) |-> SSHHost(block.names[n], block.fields, path)]

RECURSIVE Flatten(_)
Flatten(seqs) == IF seqs = <<>> THEN <<>> ELSE Head(seqs) \o Flatten(Tail(seqs))

\* ParseSSHConfigFile: the records of every block, in file order.
ParseSSHConfigFile(lines, path) ==
    LET blocks == HostBlocks(lines) IN
    Flatten([b \in 1..Len(blocks) |-> BlockRecords(blocks[b], path)])

\* The first block that declares name, 0 when none does.
BlockDeclaring(lines, name) ==
    LET blocks == HostBlocks(lines)
        at     == {b \in 1..Len(blocks) :
                     \E n \in 1..Len(blocks[b].names) : blocks[b].names[n] = name}
    IN  IF at = {} THEN 0 ELSE CHOOSE b \in at : \A c \in at : b <= c

NotFound == [Name |-> ""]

\* GetSSHHostFromFile: the record of name, or NotFound.
GetSSHHostFromFile(name, lines, path) ==
    LET b == BlockDeclaring(lines, name) IN
    IF b = 0 THEN NotFound
    ELSE SSHHost(name, HostBlocks(lines)[b].fields, path)

\* IsPartOfMultiHostDeclaration: true and the names of the Host line when it
\* lists more than one name.
IsPartOfMultiHostDeclaration(name, lines) ==
    LET b == BlockDeclaring(lines, name) IN
    IF b # 0 /\ Len(HostBlocks(lines)[b].names) > 1
    THEN <<TRUE, HostBlocks(lines)[b].names>>
    ELSE <<FALSE, <<>>>>

\* The line of one field of a written block, none when the value is empty.
FieldLine(key, value) == IF value = "" THEN <<>> ELSE << <<key, value>> >>

\* The block written for names and a record.
GeneratedBlock(names, host) ==
    << <<"Host">> \o names >>
    \o FieldLine("HostName", host.Hostname)
    \o FieldLine("User", host.User)
    \o FieldLine("Port", host.Port)
    \o FieldLine("IdentityFile", host.Identity)
    \o FieldLine("ProxyJump", host.ProxyJump)
    \o FieldLine("Options", host.Options)
    \o FieldLine("RemoteCommand", host.RemoteCommand)
    \o FieldLine("RequestTTY", host.RequestTTY)
    \o (IF host.Tags = <<>> THEN <<>> ELSE << <<"Tags">> \o host.Tags >>)

\* The file with block b replaced by newBlock.
ReplaceBlock(lines, b, newBlock) ==
    LET blk == HostBlocks(lines)[b] IN
    SubSeq(lines, 1, blk.first - 1) \o newBlock
    \o SubSeq(lines, blk.last + 1, Len(lines))

\* UpdateSSHHostInFile(oldName, newHost, path): <<file after, error>>.
UpdateSSHHostInFile(oldName, newHost, lines) ==
    LET b == BlockDeclaring(lines, oldName) IN
    IF b = 0 THEN <<lines, "host not found">>
    ELSE <<ReplaceBlock(lines, b, GeneratedBlock(<<newHost.Name>>, newHost)), "">>

\* UpdateMultiHostBlock(originalHosts, newHosts, commonHost, path):
\* <<file after, error>>.
UpdateMultiHostBlock(originalHosts, newHosts, commonHost, lines) ==
    LET blocks == HostBlocks(lines)
        at     == {b \in 1..Len(blocks) : blocks[b].names = originalHosts}
    IN  IF at = {} THEN <<lines, "host not found">>
        ELSE <<ReplaceBlock(lines, CHOOSE b \in at : \A c \in at : b <= c,
                            GeneratedBlock(newHosts, commonHost)), "">>

\* validation.ValidateHost: "" when the values are accepted. A host name
\* holds no blank; a hostname is required.
ValidateHost(hostName, hostname, port, identity) ==
    IF hostName = "" \/ hostName \in {"b b"} THEN "invalid host name"
    ELSE IF hostname = "" THEN "invalid hostname"
    ELSE ""

-----------------------------------------------------------------------------
(* The edit form (editFormModel) *)

focusAreaHosts      == 0
focusAreaProperties == 1

\* inputs[0..8]: hostname, user, port, identity, proxyJump, options, tags,
\* remoteCommand, requestTTY. Sequences start at 1, so inputs[k] is at k + 1.
NumInputs == 9

\* strings.TrimSpace on the values typed in the model.
TrimSpace(v) == IF v = " " THEN "" ELSE v

\* strings.Join(host.Tags, ", ") and the split of the tags input at ",".
JoinTags(tags) == IF tags = <<>> THEN "" ELSE tags[1]
SplitTags(tagsStr) == IF TrimSpace(tagsStr) = "" THEN <<>> ELSE <<TrimSpace(tagsStr)>>

NoCall == [fn |-> "none"]
NoForm == [status |-> "none"]

\* A form that always opens on the one name it was called with.
FormHostNames_Single(isMulti, hostNames, hostName) == <<hostName>>

\* Host names of the form: the siblings of a multi-host block, else the name.
FormHostNames(isMulti, hostNames, hostName) ==
    IF ~isMulti THEN <<hostName>> ELSE hostNames

\* NewEditForm(hostName, styles, width, height, configFile) on a file that
\* declares hostName. The configFile field, which nothing reads once
\* actualConfigFile is set, is left out of the model.
NewEditForm(hostName, configFile, lines) ==
    LET host   == GetSSHHostFromFile(hostName, lines, ConfigPath)
        actual == IF configFile # "" THEN configFile ELSE host.SourceFile
        multi  == IF actual # ""
                  THEN IsPartOfMultiHostDeclaration(hostName, lines)
                  ELSE <<FALSE, <<>>>>
        names  == FormHostNames(multi[1], multi[2], hostName)
    IN  [status           |-> "open",
         hostInputs       |-> names,
         hostFocus        |-> [i \in 1..Len(names) |-> i = 1],
         inputs           |-> <<host.Hostname, host.User, host.Port,
                                host.Identity, host.ProxyJump, host.Options,
                                JoinTags(host.Tags), host.RemoteCommand,
                                host.RequestTTY>>,
         inputFocus       |-> [i \in 1..NumInputs |-> FALSE],
         focusArea        |-> focusAreaHosts,
         focused          |-> 0,
         err              |-> "",
         originalName     |-> hostName,
         originalHosts    |-> names,
         actualConfigFile |-> actual]

\* addHostInput: a new, focused, empty host input at the end.
addHostInput(m) ==
    LET blurHost == m.focusArea = focusAreaHosts /\ m.focused < Len(m.hostInputs)
        blurProp == ~blurHost /\ m.focusArea = focusAreaProperties
                    /\ m.focused < Len(m.inputs)
    IN  [m EXCEPT
           !.hostInputs = Append(@, ""),
           !.hostFocus  = Append(IF blurHost
                                 THEN [@ EXCEPT ![m.focused + 1] = FALSE]
                                 ELSE @, TRUE),
           !.inputFocus = IF blurProp THEN [@ EXCEPT ![m.focused + 1] = FALSE]
                          ELSE @,
           !.focusArea  = focusAreaHosts,
           !.focused    = Len(m.hostInputs)]

\* The sequence without its element at index k (from 1).
RemoveAt(seq, k) == SubSeq(seq, 1, k - 1) \o SubSeq(seq, k + 1, Len(seq))

\* deleteHostInput: removes the focused host input and focuses its successor.
deleteHostInput(m) ==
    IF Len(m.hostInputs) <= 1 \/ m.focusArea # focusAreaHosts THEN m
    ELSE
      LET inputs  == RemoveAt(m.hostInputs, m.focused + 1)
          flags   == RemoveAt(m.hostFocus, m.focused + 1)
          focused == IF m.focused >= Len(inputs) THEN Len(inputs) - 1
                     ELSE m.focused
      IN  [m EXCEPT !.hostInputs = inputs,
                    !.hostFocus  = [flags EXCEPT ![focused + 1] = TRUE],
                    !.focused    = focused]

\* An updateFocus that focuses the designated input and blurs none.
updateFocus_NoBlur(m) ==
    [m EXCEPT
       !.hostFocus  = [i \in 1..Len(m.hostInputs) |->
                         m.hostFocus[i]
                         \/ (m.focusArea = focusAreaHosts /\ i = m.focused + 1)],
       !.inputFocus = [i \in 1..Len(m.inputs) |->
                         m.inputFocus[i]
                         \/ (m.focusArea # focusAreaHosts /\ i = m.focused + 1)]]

\* updateFocus: blur every input, focus the one (focusArea, focused) names.
updateFocus(m) ==
    [m EXCEPT
       !.hostFocus  = [i \in 1..Len(m.hostInputs) |->
                         m.focusArea = focusAreaHosts /\ i = m.focused + 1],
       !.inputFocus = [i \in 1..Len(m.inputs) |->
                         m.focusArea # focusAreaHosts /\ i = m.focused + 1]]

\* Position of the focus among all the fields, hosts first.
GlobalIndex(m) ==
    IF m.focusArea = focusAreaProperties THEN Len(m.hostInputs) + m.focused
    ELSE m.focused

\* Update of "enter" on the last field submits instead of moving.
SubmitsOnEnter(m) == GlobalIndex(m) = Len(m.hostInputs) + Len(m.inputs) - 1

\* Update of "tab", "shift+tab", "enter", "up", "down": cycle the focus.
CycleFocus(m, s) ==
    LET total == Len(m.hostInputs) + Len(m.inputs)
        moved == IF s \in {"up", "shift+tab"} THEN GlobalIndex(m) - 1
                 ELSE GlobalIndex(m) + 1
        index == IF moved >= total THEN 0
                 ELSE IF moved < 0 THEN total - 1 ELSE moved
    IN  updateFocus(
          IF index < Len(m.hostInputs)
          THEN [m EXCEPT !.focusArea = focusAreaHosts, !.focused = index]
          ELSE [m EXCEPT !.focusArea = focusAreaProperties,
                         !.focused = index - Len(m.hostInputs)])

\* A typed value reaches every input that is in the focused state.
TypeValue(m, v) ==
    [m EXCEPT
       !.hostInputs = [i \in 1..Len(m.hostInputs) |->
                         IF m.hostFocus[i] THEN v ELSE m.hostInputs[i]],
       !.inputs     = [i \in 1..Len(m.inputs) |->
                         IF m.inputFocus[i] THEN v ELSE m.inputs[i]]]

\* submitEditForm: the host names collected from the host inputs.
CollectHostNames(m) ==
    SelectSeq([i \in 1..Len(m.hostInputs) |-> TrimSpace(m.hostInputs[i])],
              LAMBDA name : name # "")

\* submitEditForm: the common host configuration built from the inputs.
CommonHost(m) ==
    [Name          |-> "",
     Hostname      |-> TrimSpace(m.inputs[1]),
     User          |-> TrimSpace(m.inputs[2]),
     Port          |-> IF TrimSpace(m.inputs[3]) = "" THEN "22"
                       ELSE TrimSpace(m.inputs[3]),
     Identity      |-> TrimSpace(m.inputs[4]),
     ProxyJump     |-> TrimSpace(m.inputs[5]),
     Options       |-> TrimSpace(m.inputs[6]),
     RemoteCommand |-> TrimSpace(m.inputs[8]),
     RequestTTY    |-> TrimSpace(m.inputs[9]),
     Tags          |-> SplitTags(m.inputs[7])]

\* A submit that validates no host name.
FirstInvalid_None(hostNames, host) == ""

\* submitEditForm: the error of the first host name that fails validation.
FirstInvalid(hostNames, host) ==
    LET bad == {i \in 1..Len(hostNames) :
                  ValidateHost(hostNames[i], host.Hostname, host.Port,
                               host.Identity) # ""}
    IN  IF bad = {} THEN ""
        ELSE ValidateHost(hostNames[CHOOSE i \in bad : \A j \in bad : i <= j],
                          host.Hostname, host.Port, host.Identity)

\* submitEditForm: what stops the submit before any config call, "" if nothing.
SubmitError(m) ==
    IF CollectHostNames(m) = <<>> THEN "at least one host name is required"
    ELSE IF CommonHost(m).Hostname = "" THEN "hostname is required"
    ELSE FirstInvalid(CollectHostNames(m), CommonHost(m))

\* A dispatch that looks at the original names only.
IsSingleHostEdit_OldOnly(hostNames, originalHosts) == Len(originalHosts) = 1

\* A dispatch that looks at the submitted names only.
IsSingleHostEdit_NewOnly(hostNames, originalHosts) == Len(hostNames) = 1

\* submitEditForm: len(hostNames) == 1 && len(m.originalHosts) == 1
IsSingleHostEdit(hostNames, originalHosts) ==
    Len(hostNames) = 1 /\ Len(originalHosts) = 1

\* submitEditForm: the config call a valid submit makes.
SubmitCall(m) ==
    LET hostNames == CollectHostNames(m) IN
    IF IsSingleHostEdit(hostNames, m.originalHosts)
    THEN [fn      |-> IF m.actualConfigFile # "" THEN "UpdateSSHHostInFile"
                      ELSE "UpdateSSHHost",
          oldName |-> m.originalName,
          host    |-> [CommonHost(m) EXCEPT !.Name = hostNames[1]],
          path    |-> m.actualConfigFile]
    ELSE [fn       |-> "UpdateMultiHostBlock",
          oldNames |-> m.originalHosts,
          newNames |-> hostNames,
          host     |-> CommonHost(m),
          path     |-> m.actualConfigFile]

\* What the config package does for a call: <<file after, error>>.
Perform(call, lines) ==
    IF call.fn = "UpdateMultiHostBlock"
    THEN UpdateMultiHostBlock(call.oldNames, call.newNames, call.host, lines)
    ELSE UpdateSSHHostInFile(call.oldName, call.host, lines)

\* Files the form is opened on: blocks separated by blank lines.
FormConfigs == {ConfigGrouped, ConfigSeparate}

\* What is typed into a focused input; the last is no valid host name and
\* is typed into a host input that is the only one of its form.
TypedValues == {"", "c", "b b"}

\* Bounds: host inputs of a form, forms opened.
MaxHostInputs == 2
MaxForms == 1

FormOpen == form.status = "open"

FormKeeps ==
    UNCHANGED <<ctxVars, viewVars, sharedVars, argsVars, identVars, codecVars,
                histVars, storeVars, sortVars, bak, tmp, pc, arg, result,
                ncmds>>

\* RunEditForm(hostName, configFile) for a host the file declares.
RunEditForm(hostName, configFile) ==
    /\ ~FormOpen
    /\ nforms < MaxForms
    /\ GetSSHHostFromFile(hostName, config, ConfigPath) # NotFound
    /\ form' = NewEditForm(hostName, configFile, config)
    /\ nforms' = nforms + 1
    /\ cfgCall' = NoCall
    /\ UNCHANGED <<config, pre>>
    /\ FormKeeps

\* RunEditForm for a host the file does not declare: NewEditForm returns the
\* error and no form opens.
RunEditForm_notfound(hostName, configFile) ==
    /\ ~FormOpen
    /\ nforms < MaxForms
    /\ GetSSHHostFromFile(hostName, config, ConfigPath) = NotFound
    /\ form' = [status |-> "failed"]
    /\ nforms' = nforms + 1
    /\ cfgCall' = NoCall
    /\ UNCHANGED <<config, pre>>
    /\ FormKeeps

\* The submit command and the editFormSubmitMsg it returns: an error stays in
\* the form, a success quits the standalone form, whose model is then gone.
Submit ==
    LET call == SubmitCall(form)
        done == Perform(call, config)
    IN  IF SubmitError(form) # ""
        THEN /\ form' = [form EXCEPT !.err = SubmitError(form)]
             /\ cfgCall' = NoCall
             /\ UNCHANGED <<config, pre>>
        ELSE /\ cfgCall' = call
             /\ pre' = config
             /\ config' = done[1]
             /\ form' = IF done[2] # "" THEN [form EXCEPT !.err = done[2]]
                        ELSE [status |-> "saved"]

\* ctrl+s
KeyCtrlS ==
    /\ FormOpen
    /\ Submit
    /\ UNCHANGED nforms
    /\ FormKeeps

\* enter on the last field
KeyEnterSubmit ==
    /\ FormOpen
    /\ SubmitsOnEnter(form)
    /\ Submit
    /\ UNCHANGED nforms
    /\ FormKeeps

\* tab, shift+tab, up, down, and enter anywhere but on the last field
KeyCycle(s) ==
    /\ FormOpen
    /\ ~(s = "enter" /\ SubmitsOnEnter(form))
    /\ form' = CycleFocus(form, s)
    /\ UNCHANGED <<config, pre, nforms, cfgCall>>
    /\ FormKeeps

\* ctrl+a
KeyCtrlA ==
    /\ FormOpen
    /\ Len(form.hostInputs) < MaxHostInputs
    /\ form' = addHostInput(form)
    /\ UNCHANGED <<config, pre, nforms, cfgCall>>
    /\ FormKeeps

\* ctrl+d with several host inputs and the focus on one of them
KeyCtrlD ==
    /\ FormOpen
    /\ form.focusArea = focusAreaHosts /\ Len(form.hostInputs) > 1
    /\ form' = deleteHostInput(form)
    /\ UNCHANGED <<config, pre, nforms, cfgCall>>
    /\ FormKeeps

\* ctrl+c, esc
KeyEsc ==
    /\ FormOpen
    /\ form' = [status |-> "cancelled"]
    /\ UNCHANGED <<config, pre, nforms, cfgCall>>
    /\ FormKeeps

\* Any other key: the text inputs take it. Typing is followed in the host
\* inputs and in the hostname input.
KeyType(v) ==
    /\ FormOpen
    /\ IF v = "b b"
       THEN form.focusArea = focusAreaHosts
            /\ form.focused = 0 /\ Len(form.hostInputs) = 1
       ELSE form.focusArea = focusAreaHosts \/ form.focused = 0
    /\ form' = TypeValue(form, v)
    /\ UNCHANGED <<config, pre, nforms, cfgCall>>
    /\ FormKeeps

FormNext ==
    \/ \E hostName \in CfgHosts, configFile \in {"", ConfigPath} :
         RunEditForm(hostName, configFile)
    \/ \E hostName \in CfgHosts, configFile \in {"", ConfigPath} :
         RunEditForm_notfound(hostName, configFile)
    \/ KeyEnterSubmit
    \/ KeyCtrlS
    \/ \E s \in {"tab", "shift+tab", "up", "down", "enter"} : KeyCycle(s)
    \/ KeyCtrlA
    \/ KeyCtrlD
    \/ KeyEsc
    \/ \E v \in TypedValues : KeyType(v)

\* The ghost variables of a registry with no entry.
NoCalls    == [id \in Identifiers |-> 0]
NoLastCall == [id \in Identifiers |-> ZeroTime]
NoOrigin   == [id \in Identifiers |-> {}]

\* The codec is given a connection.
CodecInit ==
    /\ conn \in ManualConnections
    /\ hostID = <<>>
    /\ parsed = NotParsed
    /\ cstep = "input"
    /\ history = EmptyHistory /\ now = 0
    /\ calls = NoCalls /\ lastCall = NoLastCall /\ origin = NoOrigin
    /\ hm = "open" /\ doc = NoFile /\ oldDoc = NoFile /\ opc = "idle"
    /\ buf = <<>> /\ faults = MaxFaults /\ nopens = 0 /\ op = NoOp
    /\ legacy = NoFile /\ clean = TRUE
    /\ hosts = <<>> /\ sorted = <<>> /\ sortBy = "none"
    /\ ctxDir = EmptyDir /\ ctxLast = NoContextCmd
    /\ model = NoModel /\ msg = NoMsg /\ viewCmd = "none"
    /\ stores = NoStores /\ lastWriter = 0 /\ missed = NoneMissed /\ recorded = NoneRecorded
    /\ args = <<>> /\ osUser = <<>> /\ parsedArgs = NotScanned /\ manualCmd = "unknown"
    /\ isManual = "unknown"
    /\ config = <<>> /\ bak = Absent /\ tmp = Absent
    /\ pc = "off" /\ arg = NoCommand /\ pre = <<>>
    /\ result = "none" /\ ncmds = 0
    /\ form = NoForm /\ nforms = 0 /\ cfgCall = NoCall

\* NewHistoryManager with no history document: an empty map.
HistoryInit ==
    /\ history = EmptyHistory /\ now = 0
    /\ calls = NoCalls /\ lastCall = NoLastCall /\ origin = NoOrigin
    /\ hm = "open" /\ doc = NoFile /\ oldDoc = NoFile /\ opc = "idle"
    /\ buf = <<>> /\ faults = MaxFaults /\ nopens = 0 /\ op = NoOp
    /\ legacy = NoFile /\ clean = TRUE
    /\ hosts = <<>> /\ sorted = <<>> /\ sortBy = "none"
    /\ ctxDir = EmptyDir /\ ctxLast = NoContextCmd
    /\ model = NoModel /\ msg = NoMsg /\ viewCmd = "none"
    /\ stores = NoStores /\ lastWriter = 0 /\ missed = NoneMissed /\ recorded = NoneRecorded
    /\ args = <<>> /\ osUser = <<>> /\ parsedArgs = NotScanned /\ manualCmd = "unknown"
    /\ isManual = "unknown"
    /\ conn = NoConn /\ hostID = <<>> /\ parsed = NotParsed
    /\ cstep = "idle"
    /\ config = <<>> /\ bak = Absent /\ tmp = Absent
    /\ pc = "off" /\ arg = NoCommand /\ pre = <<>>
    /\ result = "none" /\ ncmds = 0
    /\ form = NoForm /\ nforms = 0 /\ cfgCall = NoCall

\* The scripts start on one of the config files, with no backup and no
\* temporary file.
ConfigInit ==
    /\ config \in InitialConfigs
    /\ bak = Absent /\ tmp = Absent
    /\ pc = "idle"
    /\ arg = NoCommand
    /\ pre = config
    /\ result = "none"
    /\ ncmds = 0
    /\ conn = NoConn /\ hostID = <<>> /\ parsed = NotParsed
    /\ cstep = "idle"
    /\ history = EmptyHistory /\ now = 0
    /\ calls = NoCalls /\ lastCall = NoLastCall /\ origin = NoOrigin
    /\ hm = "open" /\ doc = NoFile /\ oldDoc = NoFile /\ opc = "idle"
    /\ buf = <<>> /\ faults = MaxFaults /\ nopens = 0 /\ op = NoOp
    /\ legacy = NoFile /\ clean = TRUE
    /\ hosts = <<>> /\ sorted = <<>> /\ sortBy = "none"
    /\ ctxDir = EmptyDir /\ ctxLast = NoContextCmd
    /\ model = NoModel /\ msg = NoMsg /\ viewCmd = "none"
    /\ stores = NoStores /\ lastWriter = 0 /\ missed = NoneMissed /\ recorded = NoneRecorded
    /\ args = <<>> /\ osUser = <<>> /\ parsedArgs = NotScanned /\ manualCmd = "unknown"
    /\ isManual = "unknown"
    /\ form = NoForm /\ nforms = 0 /\ cfgCall = NoCall

\* No form is open yet; the file is one the form can be opened on.
FormInit ==
    /\ form = NoForm /\ nforms = 0 /\ cfgCall = NoCall
    /\ config \in FormConfigs
    /\ pre = config
    /\ bak = Absent /\ tmp = Absent /\ pc = "off"
    /\ arg = NoCommand /\ result = "none" /\ ncmds = 0
    /\ conn = NoConn /\ hostID = <<>> /\ parsed = NotParsed
    /\ cstep = "idle"
    /\ history = EmptyHistory /\ now = 0
    /\ calls = NoCalls /\ lastCall = NoLastCall /\ origin = NoOrigin
    /\ hm = "open" /\ doc = NoFile /\ oldDoc = NoFile /\ opc = "idle"
    /\ buf = <<>> /\ faults = MaxFaults /\ nopens = 0 /\ op = NoOp
    /\ legacy = NoFile /\ clean = TRUE
    /\ hosts = <<>> /\ sorted = <<>> /\ sortBy = "none"
    /\ ctxDir = EmptyDir /\ ctxLast = NoContextCmd
    /\ model = NoModel /\ msg = NoMsg /\ viewCmd = "none"
    /\ stores = NoStores /\ lastWriter = 0 /\ missed = NoneMissed /\ recorded = NoneRecorded
    /\ args = <<>> /\ osUser = <<>> /\ parsedArgs = NotScanned /\ manualCmd = "unknown"
    /\ isManual = "unknown"

\* An identifier is given to IsManualConnection and ParseManualConnectionID.
IdentInit ==
    /\ hostID \in IdentStrings
    /\ conn = NoConn /\ parsed = NotParsed /\ cstep = "encoded"
    /\ isManual = "unknown"
    /\ history = EmptyHistory /\ now = 0
    /\ calls = NoCalls /\ lastCall = NoLastCall /\ origin = NoOrigin
    /\ hm = "open" /\ doc = NoFile /\ oldDoc = NoFile /\ opc = "idle"
    /\ buf = <<>> /\ faults = MaxFaults /\ nopens = 0 /\ op = NoOp
    /\ legacy = NoFile /\ clean = TRUE
    /\ hosts = <<>> /\ sorted = <<>> /\ sortBy = "none"
    /\ ctxDir = EmptyDir /\ ctxLast = NoContextCmd
    /\ model = NoModel /\ msg = NoMsg /\ viewCmd = "none"
    /\ stores = NoStores /\ lastWriter = 0 /\ missed = NoneMissed /\ recorded = NoneRecorded
    /\ args = <<>> /\ osUser = <<>> /\ parsedArgs = NotScanned /\ manualCmd = "unknown"
    /\ config = <<>> /\ bak = Absent /\ tmp = Absent
    /\ pc = "off" /\ arg = NoCommand /\ pre = <<>>
    /\ result = "none" /\ ncmds = 0
    /\ form = NoForm /\ nforms = 0 /\ cfgCall = NoCall

SpecIdent == IdentInit /\ [][IdentNext]_vars

\* A command line is given to ParseSSHArgs and IsManualSSHCommand.
ArgsInit ==
    /\ args \in ArgLists
    /\ osUser \in OSUsers
    /\ parsedArgs = NotScanned /\ manualCmd = "unknown"
    /\ isManual = "unknown"
    /\ conn = NoConn /\ hostID = <<>> /\ parsed = NotParsed /\ cstep = "idle"
    /\ history = EmptyHistory /\ now = 0
    /\ calls = NoCalls /\ lastCall = NoLastCall /\ origin = NoOrigin
    /\ hm = "open" /\ doc = NoFile /\ oldDoc = NoFile /\ opc = "idle"
    /\ buf = <<>> /\ faults = MaxFaults /\ nopens = 0 /\ op = NoOp
    /\ legacy = NoFile /\ clean = TRUE
    /\ hosts = <<>> /\ sorted = <<>> /\ sortBy = "none"
    /\ ctxDir = EmptyDir /\ ctxLast = NoContextCmd
    /\ model = NoModel /\ msg = NoMsg /\ viewCmd = "none"
    /\ stores = NoStores /\ lastWriter = 0 /\ missed = NoneMissed /\ recorded = NoneRecorded
    /\ config = <<>> /\ bak = Absent /\ tmp = Absent
    /\ pc = "off" /\ arg = NoCommand /\ pre = <<>>
    /\ result = "none" /\ ncmds = 0
    /\ form = NoForm /\ nforms = 0 /\ cfgCall = NoCall

SpecArgs == ArgsInit /\ [][ArgsNext]_vars

\* A connection recorded before, and the user running sshm.
ReconnectInit ==
    /\ conn \in ReconnectConns
    /\ osUser \in OSUsers
    /\ hostID = <<>> /\ parsed = NotParsed /\ cstep = "input"
    /\ args = <<>> /\ parsedArgs = NotScanned /\ manualCmd = "unknown"
    /\ isManual = "unknown"
    /\ ctxDir = EmptyDir /\ ctxLast = NoContextCmd
    /\ model = NoModel /\ msg = NoMsg /\ viewCmd = "none"
    /\ stores = NoStores /\ lastWriter = 0 /\ missed = NoneMissed
    /\ recorded = NoneRecorded
    /\ history = EmptyHistory /\ now = 0
    /\ calls = NoCalls /\ lastCall = NoLastCall /\ origin = NoOrigin
    /\ hm = "open" /\ doc = NoFile /\ oldDoc = NoFile /\ opc = "idle"
    /\ buf = <<>> /\ faults = MaxFaults /\ nopens = 0 /\ op = NoOp
    /\ legacy = NoFile /\ clean = TRUE
    /\ hosts = <<>> /\ sorted = <<>> /\ sortBy = "none"
    /\ config = <<>> /\ bak = Absent /\ tmp = Absent
    /\ pc = "off" /\ arg = NoCommand /\ pre = <<>>
    /\ result = "none" /\ ncmds = 0
    /\ form = NoForm /\ nforms = 0 /\ cfgCall = NoCall

SpecReconnect == ReconnectInit /\ [][ReconnectNext]_vars

\* CONFIG_DIR as mkdir -p leaves it on the first run: no file in it.
ContextInit ==
    /\ ctxDir = EmptyDir /\ ctxLast = NoContextCmd
    /\ model = NoModel /\ msg = NoMsg /\ viewCmd = "none"
    /\ stores = NoStores /\ lastWriter = 0 /\ missed = NoneMissed
    /\ recorded = NoneRecorded
    /\ args = <<>> /\ osUser = <<>> /\ parsedArgs = NotScanned /\ manualCmd = "unknown"
    /\ isManual = "unknown"
    /\ conn = NoConn /\ hostID = <<>> /\ parsed = NotParsed /\ cstep = "idle"
    /\ history = EmptyHistory /\ now = 0
    /\ calls = NoCalls /\ lastCall = NoLastCall /\ origin = NoOrigin
    /\ hm = "open" /\ doc = NoFile /\ oldDoc = NoFile /\ opc = "idle"
    /\ buf = <<>> /\ faults = MaxFaults /\ nopens = 0 /\ op = NoOp
    /\ legacy = NoFile /\ clean = TRUE
    /\ hosts = <<>> /\ sorted = <<>> /\ sortBy = "none"
    /\ config = <<>> /\ bak = Absent /\ tmp = Absent
    /\ pc = "off" /\ arg = NoCommand /\ pre = <<>>
    /\ result = "none" /\ ncmds = 0
    /\ form = NoForm /\ nforms = 0 /\ cfgCall = NoCall

SpecContext == ContextInit /\ [][ContextNext]_vars

\* NewHistoryModel on some history.
ViewInit ==
    /\ \E connections \in ViewHistories :
         /\ model = NewHistoryModel(connections)
         /\ history = StoreOf(connections)
    /\ msg = NoMsg /\ viewCmd = "none"
    /\ stores = NoStores /\ lastWriter = 0 /\ missed = NoneMissed
    /\ recorded = NoneRecorded
    /\ ctxDir = EmptyDir /\ ctxLast = NoContextCmd
    /\ args = <<>> /\ osUser = <<>> /\ parsedArgs = NotScanned /\ manualCmd = "unknown"
    /\ isManual = "unknown"
    /\ conn = NoConn /\ hostID = <<>> /\ parsed = NotParsed /\ cstep = "idle"
    /\ now = 0
    /\ calls = NoCalls /\ lastCall = NoLastCall /\ origin = NoOrigin
    /\ hm = "open" /\ doc = NoFile /\ oldDoc = NoFile /\ opc = "idle"
    /\ buf = <<>> /\ faults = MaxFaults /\ nopens = 0 /\ op = NoOp
    /\ legacy = NoFile /\ clean = TRUE
    /\ hosts = <<>> /\ sorted = <<>> /\ sortBy = "none"
    /\ config = <<>> /\ bak = Absent /\ tmp = Absent
    /\ pc = "off" /\ arg = NoCommand /\ pre = <<>>
    /\ result = "none" /\ ncmds = 0
    /\ form = NoForm /\ nforms = 0 /\ cfgCall = NoCall

SpecView == ViewInit /\ [][ViewNext]_vars

\* No history document yet and no process running.
SharedInit ==
    /\ stores = NoStores /\ lastWriter = 0 /\ missed = NoneMissed
    /\ recorded = NoneRecorded
    /\ ctxDir = EmptyDir /\ ctxLast = NoContextCmd
    /\ doc = NoFile /\ now = 0
    /\ model = NoModel /\ msg = NoMsg /\ viewCmd = "none"
    /\ args = <<>> /\ osUser = <<>> /\ parsedArgs = NotScanned /\ manualCmd = "unknown"
    /\ isManual = "unknown"
    /\ conn = NoConn /\ hostID = <<>> /\ parsed = NotParsed /\ cstep = "idle"
    /\ history = EmptyHistory
    /\ calls = NoCalls /\ lastCall = NoLastCall /\ origin = NoOrigin
    /\ hm = "closed" /\ oldDoc = NoFile /\ opc = "idle"
    /\ buf = <<>> /\ faults = MaxFaults /\ nopens = 0 /\ op = NoOp
    /\ legacy = NoFile /\ clean = TRUE
    /\ hosts = <<>> /\ sorted = <<>> /\ sortBy = "none"
    /\ config = <<>> /\ bak = Absent /\ tmp = Absent
    /\ pc = "off" /\ arg = NoCommand /\ pre = <<>>
    /\ result = "none" /\ ncmds = 0
    /\ form = NoForm /\ nforms = 0 /\ cfgCall = NoCall

SpecShared == SharedInit /\ [][SharedNext]_vars

\* No process runs; the history document and the legacy file are absent or
\* hold a document an earlier run left, the legacy file with any mode.
StoreInit ==
    /\ doc \in {NoFile} \cup {HistoryFile(d, PrivateMode) : d \in StoredDocuments}
    /\ oldDoc \in {NoFile} \cup
                  {HistoryFile(d, MigratedMode) : d \in LegacyDocuments}
    /\ legacy = IF doc # NoFile THEN doc.data
                ELSE IF oldDoc # NoFile THEN oldDoc.data ELSE NoFile
    /\ hm = "closed" /\ opc = "idle" /\ buf = <<>> /\ faults = 0
    /\ nopens = 0 /\ op = NoOp /\ clean = TRUE
    /\ history = EmptyHistory /\ now = 0
    /\ calls = NoCalls /\ lastCall = NoLastCall /\ origin = NoOrigin
    /\ hosts = <<>> /\ sorted = <<>> /\ sortBy = "none"
    /\ ctxDir = EmptyDir /\ ctxLast = NoContextCmd
    /\ model = NoModel /\ msg = NoMsg /\ viewCmd = "none"
    /\ stores = NoStores /\ lastWriter = 0 /\ missed = NoneMissed /\ recorded = NoneRecorded
    /\ args = <<>> /\ osUser = <<>> /\ parsedArgs = NotScanned /\ manualCmd = "unknown"
    /\ isManual = "unknown"
    /\ conn = NoConn /\ hostID = <<>> /\ parsed = NotParsed /\ cstep = "idle"
    /\ config = <<>> /\ bak = Absent /\ tmp = Absent
    /\ pc = "off" /\ arg = NoCommand /\ pre = <<>>
    /\ result = "none" /\ ncmds = 0
    /\ form = NoForm /\ nforms = 0 /\ cfgCall = NoCall

SpecStore == StoreInit /\ [][StoreNext]_vars

\* A registry with entries and a host list to sort.
SortInit ==
    /\ history \in {h \in SortHistories : \A id \in DOMAIN h : h[id].HostName = id}
    /\ hosts \in HostLists
    /\ sorted = <<>> /\ sortBy = "none"
    /\ now = MaxTime
    /\ ctxDir = EmptyDir /\ ctxLast = NoContextCmd
    /\ model = NoModel /\ msg = NoMsg /\ viewCmd = "none"
    /\ stores = NoStores /\ lastWriter = 0 /\ missed = NoneMissed /\ recorded = NoneRecorded
    /\ args = <<>> /\ osUser = <<>> /\ parsedArgs = NotScanned /\ manualCmd = "unknown"
    /\ isManual = "unknown"
    /\ hm = "open" /\ doc = NoFile /\ oldDoc = NoFile /\ opc = "idle"
    /\ buf = <<>> /\ faults = MaxFaults /\ nopens = 0 /\ op = NoOp
    /\ legacy = NoFile /\ clean = TRUE
    /\ calls = NoCalls /\ lastCall = NoLastCall /\ origin = NoOrigin
    /\ conn = NoConn /\ hostID = <<>> /\ parsed = NotParsed /\ cstep = "idle"
    /\ config = <<>> /\ bak = Absent /\ tmp = Absent
    /\ pc = "off" /\ arg = NoCommand /\ pre = <<>>
    /\ result = "none" /\ ncmds = 0
    /\ form = NoForm /\ nforms = 0 /\ cfgCall = NoCall

SpecSort == SortInit /\ [][SortNext]_vars

SpecForm == FormInit /\ [][FormNext]_vars

SpecConfig == ConfigInit /\ [][ConfigNext]_vars

CodecNext == Encode \/ Decode

SpecCodec == CodecInit /\ [][CodecNext]_vars

HistoryNext ==
    \/ \E hostName \in HostNames : RecordConnection(hostName)
    \/ \E c \in HistManualConns : RecordManualConnection(c)
    \/ \E cur \in SUBSET HostNames : CleanupOldEntries(cur)

SpecHistory == HistoryInit /\ [][HistoryNext]_vars

-----------------------------------------------------------------------------
(* Properties of the manual-connection codec *)

\* What decoding the identifier of c should give back: the fields of c with
\* the defaults in place of an empty user or port.
Expected(c) ==
    [user     |-> IF c.User = <<>> THEN STR_default ELSE c.User,
     hostname |-> c.Hostname,
     port     |-> IF c.Port = <<>> THEN STR_22 ELSE c.Port,
     ok       |-> TRUE]

\* C1 as stated: for every connection with a non-empty hostname,
\* ParseManualConnectionID(generateManualHostID(conn)) is ok and returns the
\* user (or "default"), the hostname and the port (or "22") of conn.
C1_RoundTripAll ==
    (cstep = "decoded" /\ conn.Hostname # <<>>) => parsed = Expected(conn)

\* C1: the round trip holds for every connection with a non-empty hostname
\* whose user has no '@' and whose port has no ':'; the hostname may hold
\* both characters.
C1_RoundTrip ==
    (/\ cstep = "decoded"
     /\ conn.Hostname # <<>>
     /\ ~ContainsChar(conn.User, "@")
     /\ ~ContainsChar(conn.Port, ":"))
    => parsed = Expected(conn)

\* A decoded connection with defaulted user and port whose hostname holds
\* both separators.
C1_Witness ==
    /\ cstep = "decoded"
    /\ conn.User = <<>> /\ conn.Port = <<>>
    /\ conn.Hostname = <<":", "@">>
    /\ parsed = [user |-> STR_default, hostname |-> <<":", "@">>,
                 port |-> STR_22, ok |-> TRUE]

-----------------------------------------------------------------------------
(* Properties of the connection-history registry *)

\* C2: a CleanupOldEntries call, whatever its list of current hosts, keeps
\* every entry under a manual identifier with its count and timestamp, and
\* removes every other entry that is not a current host.
C2_PruneSparesManual ==
    [][\A cur \in SUBSET HostNames :
         CleanupOldEntries(cur) =>
           /\ \A id \in DOMAIN history :
                IsManualConnection(id) =>
                  id \in DOMAIN history' /\ history'[id] = history[id]
           /\ \A id \in DOMAIN history :
                (~IsManualConnection(id) /\ id \notin cur) =>
                  id \notin DOMAIN history']_vars

\* C3: an identifier recorded n >= 1 times by RecordConnection since it had no
\* entry has count n and the time of its latest call, whatever was recorded
\* for other identifiers in between.
C3_CountingUpsert ==
    \A id \in Identifiers :
      (calls[id] >= 1 /\ origin[id] = {"RecordConnection"}) =>
        /\ GetConnectionCount(history, id) = calls[id]
        /\ GetLastConnectionTime(history, id) = <<lastCall[id], TRUE>>

\* "web" recorded twice, the second time later than the first, while "db"
\* was recorded as well.
C3_Witness ==
    /\ calls[STR_web] = 2 /\ origin[STR_web] = {"RecordConnection"}
    /\ calls[STR_db] >= 1
    /\ GetConnectionCount(history, STR_web) = 2
    /\ GetLastConnectionTime(history, STR_web) = <<2, TRUE>>
    /\ lastCall[STR_db] < 2

\* C10: every entry RecordConnection made for a configured host is classified
\* as not manual and every entry RecordManualConnection made as manual.
C10_DisjointIdentifiers ==
    \A id \in DOMAIN history :
      /\ "RecordConnection" \in origin[id] => ~IsManualConnection(id)
      /\ "RecordManualConnection" \in origin[id] => IsManualConnection(id)

-----------------------------------------------------------------------------
(* Properties of the config writes of the scripts *)

\* The text of every block of a file, in file order.
BlockTexts(lines) ==
    LET blocks == HostBlocks(lines) IN
    [b \in 1..Len(blocks) |-> SubSeq(lines, blocks[b].first, blocks[b].last)]

\* The block text declares name on its Host line.
Declares(text, name) == \E n \in 1..Len(NamesOf(text[1])) : NamesOf(text[1])[n] = name

\* The block texts that do not declare name, in file order.
OtherBlocks(lines, name) ==
    SelectSeq(BlockTexts(lines), LAMBDA text : ~Declares(text, name))

\* The block texts that declare name.
DeclaringBlocks(lines, name) ==
    SelectSeq(BlockTexts(lines), LAMBDA text : Declares(text, name))

\* The command that ran last ran to its end (it was not killed).
Completed(cmd) ==
    pc = "idle" /\ arg.cmd = cmd /\ result \in {"ok", "error"}

\* C4: at every step of a delete or an edit, and after a kill at any step,
\* the config file holds the complete content from before the command or the
\* complete content the command writes.
C4_AtomicOldOrNew ==
    pc # "off" => config \in {pre, PostContent}

\* C5: a config file that started non-empty is never left empty by a delete
\* or an edit.
C5_NeverEmptied ==
    pc # "off" => config # <<>>

\* C6: a delete that succeeded removed the whole block declaring the host,
\* names declared with it included, and left every other block as it was.
C6_DeleteRemovesBlock ==
    (Completed("sshm_delete") /\ result = "ok") =>
      /\ DeclaringBlocks(config, arg.host) = <<>>
      /\ OtherBlocks(config, arg.host) = OtherBlocks(pre, arg.host)

\* C7: an edit of a host that has a block of its own succeeds, whatever the
\* other blocks of the file; afterwards exactly one block declares the host,
\* it is the block generated from the new values, and every other block is as
\* it was.
C7_EditReplacesOneBlock ==
    (Completed("sshm_edit") /\ HostInfo(pre, arg.host) # <<>>) =>
      /\ result = "ok"
      /\ DeclaringBlocks(config, arg.host)
           = <<Tail(NewBlock(arg.host, arg.ans, arg.cur))>>
      /\ OtherBlocks(config, arg.host) = OtherBlocks(pre, arg.host)

-----------------------------------------------------------------------------
(* Properties of multi-host blocks and of the edit form *)

\* A submit of the form is taken.
SubmitStep == KeyCtrlS \/ KeyEnterSubmit

\* No name is declared by two blocks of the file.
UniqueNames(lines) ==
    \A name \in CfgHosts : Len(DeclaringBlocks(lines, name)) <= 1

\* C8: on a file that declares no name twice, a form opened on a block
\* declaring two names and submitted with only one of them left calls UpdateMultiHostBlock with the two names, the one
\* name and the common fields; the file then has exactly one block declaring
\* the kept name, alone and with those fields, no block declaring the removed
\* name, and every other block as it was.
C8_RemoveNameFromGroup ==
    [][(/\ FormOpen
        /\ Len(form.originalHosts) = 2
        /\ form.originalHosts[1] # form.originalHosts[2]
        /\ Len(CollectHostNames(form)) = 1
        /\ \E n \in 1..2 : form.originalHosts[n] = CollectHostNames(form)[1]
        /\ SubmitError(form) = ""
        /\ UniqueNames(config)
        /\ SubmitStep)
       =>
       LET kept    == CollectHostNames(form)[1]
           removed == IF form.originalHosts[1] = kept
                      THEN form.originalHosts[2] ELSE form.originalHosts[1]
       IN  /\ cfgCall' = [fn       |-> "UpdateMultiHostBlock",
                          oldNames |-> form.originalHosts,
                          newNames |-> <<kept>>,
                          host     |-> CommonHost(form),
                          path     |-> form.actualConfigFile]
           /\ form'.status = "saved"
           /\ DeclaringBlocks(config', kept)
                = <<GeneratedBlock(<<kept>>, CommonHost(form))>>
           /\ DeclaringBlocks(config', removed) = <<>>
           /\ OtherBlocks(config', kept)
                = SelectSeq(OtherBlocks(config, kept),
                            LAMBDA text : ~Declares(text, removed))]_vars

\* The form opened on "Host a b" was saved with the input of b removed.
C8_Witness ==
    /\ form.status = "saved"
    /\ pre = ConfigGrouped
    /\ cfgCall.fn = "UpdateMultiHostBlock"
    /\ cfgCall.oldNames = <<"a", "b">>
    /\ cfgCall.newNames = <<"a">>
    /\ DeclaringBlocks(config, "a") = <<GeneratedBlock(<<"a">>, cfgCall.host)>>
    /\ DeclaringBlocks(config, "b") = <<>>
    /\ OtherBlocks(config, "a") = <<BlockC>>

\* Number of records the blocks before block b give.
RECURSIVE RecordsBefore(_, _)
RecordsBefore(blocks, b) ==
    IF b <= 1 THEN 0
    ELSE RecordsBefore(blocks, b - 1) + Len(blocks[b - 1].names)

\* The non-name fields of a record.
NonNameFields(rec) == [f \in DOMAIN rec \ {"Name"} |-> rec[f]]

\* The parse invariant of one block, recs being the records of the file and
\* at the number of records before the block.
BlockParsed(block, b, recs, at) ==
    LET names == block.names
        k     == Len(names)
    IN  /\ k >= 1
        /\ \A n \in 1..k :
             /\ recs[at + n].Name = names[n]
             /\ recs[at + n].SourceFile = ConfigPath
             /\ recs[at + n].Hostname = FieldOf(block.fields, "HostName")
             /\ recs[at + n].User = FieldOf(block.fields, "User")
             /\ recs[at + n].Port = FieldOf(block.fields, "Port")
             /\ NonNameFields(recs[at + n]) = NonNameFields(recs[at + 1])
        /\ \A n \in 1..k :
             BlockDeclaring(config, names[n]) = b =>
               LET multi == IsPartOfMultiHostDeclaration(names[n], config)
               IN  /\ multi[1] = (k > 1)
                   /\ k > 1 => multi[2] = names
        /\ (FormOpen /\ BlockDeclaring(config, form.originalName) = b) =>
             form.originalHosts = IF k > 1 THEN names ELSE <<form.originalName>>

AllBlocksParsed(blocks, recs) ==
    /\ Len(recs) = RecordsBefore(blocks, Len(blocks) + 1)
    /\ \A b \in 1..Len(blocks) :
         BlockParsed(blocks[b], b, recs, RecordsBefore(blocks, b))

-----------------------------------------------------------------------------
(* Sorted host lists *)

HasHistory(h, name) == GetLastConnectionTime(h, name)[2]

LastOf(h, name) == GetLastConnectionTime(h, name)[1]

StringLeq(s, t) == s = t \/ StringLess(s, t)

\* The recency rule for x placed before y.
RecencyOrdered(h, x, y) ==
    \/ HasHistory(h, x) /\ HasHistory(h, y) /\ LastOf(h, x) >= LastOf(h, y)
    \/ HasHistory(h, x) /\ ~HasHistory(h, y)
    \/ ~HasHistory(h, x) /\ ~HasHistory(h, y) /\ StringLeq(x, y)

\* The frequency rule for x placed before y: higher count first; equal
\* count by recency; still tied, ascending by name.
FrequencyOrdered(h, x, y) ==
    \/ GetConnectionCount(h, x) > GetConnectionCount(h, y)
    \/ /\ GetConnectionCount(h, x) = GetConnectionCount(h, y)
       /\ \/ HasHistory(h, x) /\ HasHistory(h, y) /\ LastOf(h, x) > LastOf(h, y)
          \/ HasHistory(h, x) /\ ~HasHistory(h, y)
          \/ /\ HasHistory(h, x) = HasHistory(h, y)
             /\ HasHistory(h, x) => LastOf(h, x) = LastOf(h, y)
             /\ StringLeq(x, y)

IsPermutation(out, in) ==
    /\ Len(out) = Len(in)
    /\ \E p \in Orderings(Len(in)) : \A i \in 1..Len(in) : out[i] = in[p[i]]

PositionIn(list, name) == CHOOSE k \in 1..Len(list) : list[k] = name

\* C11: the list SortHostsByMostUsed returns is ordered by count descending,
\* hosts of equal count by the recency rule, and hosts still tied (equal
\* count and equal lastConnect, or neither with history) ascending by name.
C11_SortByFrequency ==
    sortBy = "MostUsed" =>
        \A i, j \in 1..Len(sorted) :
            i < j => FrequencyOrdered(history, sorted[i], sorted[j])

\* C12: the list SortHostsByLastUsed returns is a permutation of its input,
\* and every host placed before another is related to it by the recency rule:
\* both with history and lastConnect not older, or with history before
\* without, or neither with history and the name not greater.
C12_SortByRecency ==
    sortBy = "LastUsed" =>
        /\ IsPermutation(sorted, hosts)
        /\ \A i, j \in 1..Len(sorted) :
               i < j => RecencyOrdered(history, sorted[i], sorted[j])

\* Three hosts were sorted by recency: two with history and different
\* lastConnect, and one without history.
C12_Witness ==
    /\ sortBy = "LastUsed"
    /\ Len(sorted) = 3
    /\ HasHistory(history, sorted[1]) /\ HasHistory(history, sorted[2])
    /\ LastOf(history, sorted[1]) > LastOf(history, sorted[2])
    /\ ~HasHistory(history, sorted[3])
    /\ sorted # hosts

-----------------------------------------------------------------------------
(* The history document *)

\* C14: no operation of the store aborts the process: after NewHistoryManager
\* accepted a document, every record, cleanup and query call returns.
C14_NoPanic == hm # "panicked"

\* C15: the history document, when it exists, has permission mode 0600.
C15_DocumentPrivate == doc # NoFile => doc.mode = PrivateMode

Mutators ==
    {"RecordConnection", "RecordPortForwarding", "RecordManualConnection",
     "CleanupOldEntries"}

\* A store opened on the document answers the queries as the map h does.
SameAnswers(u, h, isNil) ==
    /\ ~u.err
    /\ u.isNil = isNil
    /\ u.map = h
    /\ \A id \in Identifiers :
         /\ GetConnectionCount(u.map, id) = GetConnectionCount(h, id)
         /\ GetLastConnectionTime(u.map, id) = GetLastConnectionTime(h, id)
         /\ GetPortForwardingConfig(u.map, id) = GetPortForwardingConfig(h, id)

\* C16: after a record or cleanup call that returned no error, the document
\* on disk decodes to the map in memory: a store opened on it reports the
\* same count, last connection and port forwarding for every identifier.
C16_WriteThrough ==
    (op.name \in Mutators /\ op.err = "nil") =>
        /\ doc # NoFile
        /\ SameAnswers(Unmarshal(doc.data, EmptyHistory), history, hm = "nil")

\* A port forwarding was recorded without error in a map of two entries, one
\* with and one without a port forwarding.
C16_Witness ==
    /\ op.name = "RecordPortForwarding" /\ op.err = "nil"
    /\ Cardinality(DOMAIN history) = 2
    /\ \E id \in DOMAIN history : history[id].PortForwarding = NoPortForwarding
    /\ \E id \in DOMAIN history : history[id].PortForwarding # NoPortForwarding

\* C17: RecordPortForwarding(id, cfg) counts a connection as RecordConnection
\* does (count 1 for a new entry, one more for an existing one, lastConnect
\* the time of the call) and leaves GetPortForwardingConfig(id) equal to cfg,
\* whatever was stored before; GetPortForwardingConfig is nil for an
\* identifier without entry.
C17_RecordPortForwarding ==
    [][(op'.name = "RecordPortForwarding" /\ op'.err # "panic") =>
          LET id  == op'.id
              cfg == op'.cfg
          IN  /\ GetConnectionCount(history', id) =
                    GetConnectionCount(history, id) + 1
              /\ GetLastConnectionTime(history', id) = <<now', TRUE>>
              /\ GetPortForwardingConfig(history', id) = cfg
              /\ \A k \in Identifiers \ DOMAIN history' :
                     GetPortForwardingConfig(history', k) = NoPortForwarding
              /\ \A k \in DOMAIN history \ {id} :
                     k \in DOMAIN history' /\ history'[k] = history[k]]_vars

\* The entry of web was given a second port forwarding, ssh -D, after ssh -L.
C17_Witness ==
    /\ op.name = "RecordPortForwarding" /\ op.err = "nil"
    /\ GetConnectionCount(history, STR_web) = 2
    /\ GetPortForwardingConfig(history, STR_web).Type = "dynamic"
    /\ GetPortForwardingConfig(history, STR_web).RemoteHost = ""

OpenReturned == op.name = "NewHistoryManager" /\ opc = "idle"

\* C19: NewHistoryManager returns the empty map when there is no history
\* document, and, once the directory is there, returns an error only when
\* reading or decoding an existing document fails; a failed migration step
\* does not make it return an error.
C19_OpenTolerant ==
    OpenReturned =>
        /\ (op.err = "nil" /\ doc = NoFile) =>
               hm = "open" /\ history = EmptyHistory
        /\ op.err # "nil" =>
               \/ op.err \in {"dir", "read"}
               \/ op.err = "syntax" /\ clean

\* C20: while the store has not rewritten it, the history content found on
\* disk is complete at the new path or at the legacy path, in every state of
\* a migration, failed or interrupted or not; and a NewHistoryManager call
\* during which no system call fails returns with that content loaded.
C20_MigrationKeepsContent ==
    legacy # NoFile =>
        /\ \/ doc # NoFile /\ doc.data = legacy
           \/ oldDoc # NoFile /\ oldDoc.data = legacy
        /\ (OpenReturned /\ clean) =>
               /\ op.err = "nil"
               /\ SameAnswers(Unmarshal(legacy, EmptyHistory), history,
                              hm = "nil")

-----------------------------------------------------------------------------
(* Identifiers given to the codec *)

\* C21: IsManualConnection(id) is true exactly when id starts with "manual:".
C21_PrefixTest ==
    isManual # "unknown" =>
        (isManual = "yes" <=> HasPrefix(hostID, STR_manual))

\* What follows the first seven characters of an identifier.
AfterPrefix(id) == SubSeq(id, ManualPrefixLen + 1, Len(id))

\* C22: ParseManualConnectionID returns ok=false with empty user, hostname
\* and port for an identifier that does not start with "manual:", for one
\* without '@', and for one without ':' after the prefix.
C22_ParseRejects ==
    (/\ cstep = "decoded"
     /\ \/ ~HasPrefix(hostID, STR_manual)
        \/ ~ContainsChar(hostID, "@")
        \/ ~ContainsChar(AfterPrefix(hostID), ":"))
    => parsed = NotParsed

\* An identifier with the prefix and a ':' after it but no '@' was parsed.
C22_Witness ==
    /\ cstep = "decoded"
    /\ HasPrefix(hostID, STR_manual)
    /\ ContainsChar(AfterPrefix(hostID), ":")
    /\ ContainsChar(AfterPrefix(hostID), "a")
    /\ ~ContainsChar(hostID, "@")
    /\ ~parsed.ok

\* The text manual:<user>@<hostname>:<port>.
ManualIDText(user, hostname, port) ==
    <<"m", "a", "n", "u", "a", "l", ":">> \o user \o <<"@">> \o hostname
        \o <<":">> \o port

\* The key of the connection c: "default" for an empty user, "22" for an
\* empty port.
ManualKey(c) ==
    ManualIDText(IF Len(c.User) = 0 THEN <<"d", "e", "f", "a", "u", "l", "t">>
                 ELSE c.User,
                 c.Hostname,
                 IF Len(c.Port) = 0 THEN <<"2", "2">> ELSE c.Port)

\* C23: RecordManualConnection(conn) writes its entry under the key
\* manual:<user>@<hostname>:<port>, "default" standing for an empty user and
\* "22" for an empty port, and under no other key; the identity of conn has
\* no part in the key.
C23_ManualKey ==
    [][(op'.name = "RecordManualConnection" /\ op'.err # "panic") =>
          \A c \in HistManualConns :
              RecordManualConnection(c) =>
                  /\ ManualKey(c) \in DOMAIN history'
                  /\ history'[ManualKey(c)].HostName = ManualKey(c)
                  /\ DOMAIN history' = DOMAIN history \cup {ManualKey(c)}
                  /\ \A k \in DOMAIN history \ {ManualKey(c)} :
                         history'[k] = history[k]
                  /\ \A identity \in CodecIdentities :
                         generateManualHostID([c EXCEPT !.Identity = identity])
                             = ManualKey(c)]_vars

\* The connections ssh h -p 80 -i k and ssh u@h are both recorded, under
\* manual:default@h:80 and manual:u@h:22.
C23_Witness ==
    /\ op.name = "RecordManualConnection" /\ op.err = "nil"
    /\ op.id = <<"m", "a", "n", "u", "a", "l", ":", "d", "e", "f", "a", "u",
                  "l", "t", "@", "h", ":", "8", "0">>
    /\ op.id \in DOMAIN history
    /\ <<"m", "a", "n", "u", "a", "l", ":", "u", "@", "h", ":", "2", "2">>
           \in DOMAIN history

-----------------------------------------------------------------------------
(* ssh command lines: the left-to-right scan, field by field *)

StartsWithDash(t) == Len(t) >= 1 /\ t[1] = "-"

\* -p or -pN
StartsWithDashP(t) == Len(t) >= 2 /\ t[1] = "-" /\ t[2] = "p"

ConfigFlagTokens ==
    {<<"-", "F">>, <<"-", "c">>, <<"-", "-", "c", "o", "n", "f", "i", "g">>}

\* Token k is the value of the flag before it: of -p or -i whatever it is,
\* of another flag (not -pN, not a config flag) when it does not start with
\* '-'; the flag before it is itself not a value.
RECURSIVE TakenAsValue(_, _)
TakenAsValue(a, k) ==
    /\ k > 1
    /\ ~TakenAsValue(a, k - 1)
    /\ \/ a[k - 1] = <<"-", "p">>
       \/ a[k - 1] = <<"-", "i">>
       \/ /\ StartsWithDash(a[k - 1])
          /\ ~StartsWithDashP(a[k - 1])
          /\ a[k - 1] \notin ConfigFlagTokens
          /\ ~StartsWithDash(a[k])

\* The tokens the scan reaches.
Reached(a) == {k \in 1..Len(a) : ~TakenAsValue(a, k)}

Last(S) == CHOOSE k \in S : \A j \in S : j <= k

\* The port: the value of the last -p <n> or -pN, "22" without one.
RefPort(a) ==
    LET setters == {k \in Reached(a) :
                      \/ a[k] = <<"-", "p">> /\ k < Len(a)
                      \/ StartsWithDashP(a[k]) /\ Len(a[k]) > 2}
    IN  IF setters = {} THEN <<"2", "2">>
        ELSE IF a[Last(setters)] = <<"-", "p">> THEN a[Last(setters) + 1]
        ELSE SubSeq(a[Last(setters)], 3, Len(a[Last(setters)]))

\* The identity: the value of the last -i <path>.
RefIdentity(a) ==
    LET setters == {k \in Reached(a) : a[k] = <<"-", "i">> /\ k < Len(a)}
    IN  IF setters = {} THEN <<>> ELSE a[Last(setters) + 1]

\* The reached tokens that are no flags and hold an '@'.
AtTokens(a) ==
    {k \in Reached(a) : ~StartsWithDash(a[k]) /\ ContainsChar(a[k], "@")}

BeforeAt(t) == SubSeq(t, 1, (CHOOSE n \in 1..Len(t) :
                   t[n] = "@" /\ \A j \in 1..(n - 1) : t[j] # "@") - 1)

AfterAt(t) == SubSeq(t, Len(BeforeAt(t)) + 2, Len(t))

\* The user: the part before the first '@' of the last such token, the
\* invoking user without one.
RefUser(a, currentUser) ==
    IF AtTokens(a) = {} THEN currentUser ELSE BeforeAt(a[Last(AtTokens(a))])

\* The hostname after the first k tokens: a token with '@' sets it, a bare
\* token sets it when none is set.
RECURSIVE RefHostname(_, _)
RefHostname(a, k) ==
    IF k = 0 THEN <<>>
    ELSE IF k \in AtTokens(a) THEN AfterAt(a[k])
    ELSE IF k \in Reached(a) /\ ~StartsWithDash(a[k])
            /\ RefHostname(a, k - 1) = <<>>
    THEN a[k]
    ELSE RefHostname(a, k - 1)

\* C24: ParseSSHArgs returns (nil, false) for an empty argument list and
\* whenever its scan reaches a token -F, -c or --config, whatever the tokens
\* before and after it.
C24_ConfigRejected ==
    (/\ parsedArgs # NotScanned
     /\ \/ Len(args) = 0
        \/ \E k \in Reached(args) : args[k] \in ConfigFlagTokens)
    => parsedArgs = Rejected

\* The command line u@h -c h was parsed.
C24_Witness ==
    /\ parsedArgs # NotScanned
    /\ args = <<(<<"u", "@", "h">>), (<<"-", "c">>), (<<"h">>)>>

\* C25: for an argument list without -F, -c and --config, ParseSSHArgs
\* returns the port of the last -p <n> or -pN (default "22"), the identity of
\* the last -i <path>, the user and hostname of the scan ('@' tokens split at
\* the first '@', a bare token as hostname only when none is set, the
\* invoking user when no token gives one), with ok true, when the hostname is
\* not empty, and (nil, false) when it is empty.
C25_ReferenceScan ==
    (/\ parsedArgs # NotScanned
     /\ \A k \in 1..Len(args) : args[k] \notin ConfigFlagTokens)
    => parsedArgs =
         IF RefHostname(args, Len(args)) = <<>>
         THEN [conn |-> NilConn, ok |-> FALSE]
         ELSE [conn |-> [User |-> RefUser(args, osUser),
                         Hostname |-> RefHostname(args, Len(args)),
                         Port |-> RefPort(args),
                         Identity |-> RefIdentity(args)],
               ok |-> TRUE]

\* The command line h u@h@x -p8 was parsed: user u, hostname h@x, port 8.
C25_Witness ==
    /\ parsedArgs # NotScanned
    /\ args = <<(<<"h">>), (<<"u", "@", "h", "@", "x">>), (<<"-", "p", "8">>)>>
    /\ parsedArgs.ok
    /\ parsedArgs.conn.Hostname = <<"h", "@", "x">>
    /\ parsedArgs.conn.Port = <<"8">>

\* C29: IsManualSSHCommand(args) is true exactly when some argument starts
\* with "-p" or holds an '@'.
C29_ManualCommand ==
    manualCmd # "unknown" =>
        (manualCmd = "yes" <=>
            \E k \in 1..Len(args) :
                StartsWithDashP(args[k]) \/ ContainsChar(args[k], "@"))

\* A command line with a port and no '@' was found manual.
C29_Witness ==
    /\ manualCmd = "yes"
    /\ Len(args) = 2
    /\ args[1] = <<"h">>
    /\ args[2] = <<"-", "p", "8">>

-----------------------------------------------------------------------------
(* The list of all connections *)

\* C26: GetAllConnectionsInfo returns the ConnectionInfo of every identifier
\* of the store exactly once and nothing else, each entry's lastConnect not
\* older than that of the entry after it.
C26_AllConnections ==
    sortBy = "All" =>
        /\ Len(sorted) = Cardinality(DOMAIN history)
        /\ \A id \in DOMAIN history :
               Cardinality({i \in 1..Len(sorted) : sorted[i] = history[id]}) = 1
        /\ \A i \in 1..Len(sorted) :
               /\ sorted[i].HostName \in DOMAIN history
               /\ sorted[i] = history[sorted[i].HostName]
        /\ \A i \in 1..(Len(sorted) - 1) :
               sorted[i].LastConnect >= sorted[i + 1].LastConnect

\* Three connections were listed, two of them of the same time.
C26_Witness ==
    /\ sortBy = "All"
    /\ Len(sorted) = 3
    /\ sorted[1].LastConnect > sorted[2].LastConnect
    /\ sorted[2].LastConnect = sorted[3].LastConnect

-----------------------------------------------------------------------------
(* C27: concurrent writers of the history document *)

\* The connections the history document decodes to.
OnDisk == IF doc = NoFile THEN EmptyHistory
          ELSE Unmarshal(doc.data, EmptyHistory).map

-----------------------------------------------------------------------------
(* C28: promotion from the history view *)

\* The step shows the add form.
OpensAddForm == ~model.showAddForm /\ model'.showAddForm

\* The row under the cursor belongs to a host of the config file.
OnConfiguredHost == HasSelection /\ Selected.HostName \in ViewHosts

\* The form opens only on a row whose identifier IsManualConnection accepts,
\* and that row becomes selectedConn.
OpensOnlyOnManual ==
    OpensAddForm =>
        /\ HasSelection
        /\ IsManualConnection(Selected.HostName)
        /\ model'.selectedConn = Selected

\* "a" on the row of a configured host, or on an empty list, leaves the
\* model as it is.
NoPromotionOfConfigured ==
    KeyA /\ (OnConfiguredHost \/ Len(model.filteredConns) = 0) =>
        UNCHANGED model

\* C28: only manual identifiers can be promoted. The add form is shown only
\* when the selected connection has a manual identifier, and pressing "a" on
\* the entry of a configured host, or with an empty list, changes no state of
\* the model.
C28_OnlyManualPromoted ==
    [][OpensOnlyOnManual /\ NoPromotionOfConfigured]_vars

-----------------------------------------------------------------------------
(* C30: the persisted current context *)

\* The persisted current context of directory dir names the default config or
\* a file of the directory.
CurrentValid(dir) ==
    \/ StartContext(dir) = DEFAULT_CONFIG
    \/ \E context \in DOMAIN dir : StartContext(dir) = ContextPath(context)

\* The step is a context command that ended with the given exit status.
Ran(c, exit) == ctxLast'.cmd = c /\ ctxLast'.exit = exit

\* A delete of the current context leaves the default config current.
DeleteSwitchesToDefault ==
    /\ ctxLast'.cmd = "delete"
    /\ ctxLast'.context # ""
    /\ IsFile(ctxDir, ctxLast'.context)
    /\ StartContext(ctxDir) = ContextPath(ctxLast'.context)
    => StartContext(ctxDir') = DEFAULT_CONFIG

\* A use of a name with no file fails and changes no file.
UseOfMissingFails ==
    /\ ctxLast'.cmd = "use"
    /\ ctxLast'.context \notin {"", "default"}
    /\ ~IsFile(ctxDir, ctxLast'.context)
    => Ran("use", 1) /\ UNCHANGED ctxDir

\* C30: the current context is always valid. After any sequence of context
\* create, use and delete commands the persisted current context names the
\* default config or a context file that exists; deleting the current context
\* switches to the default; and use of a nonexistent context fails and leaves
\* the current context unchanged.
C30_CurrentContextValid ==
    [][CurrentValid(ctxDir') /\ DeleteSwitchesToDefault /\ UseOfMissingFails]_vars

-----------------------------------------------------------------------------
(* C34: deleting from the history view *)

\* C34: pressing "d" in the history view, search inactive and a row selected,
\* deletes the selected connection: after the command has run, the history
\* holds no entry for that identifier.
C34_DeleteRemovesEntry ==
    [][deleteFromHistory => Selected.HostName \notin DOMAIN history']_vars

-----------------------------------------------------------------------------
(* C39: the add form of the history view *)

\* The add form is closed by this step.
ClosesAddForm == model.showAddForm /\ ~model'.showAddForm

\* C39: in every reachable state of the history model showAddForm implies a
\* non-nil addForm, identifiers with the manual prefix that do not decode
\* included; and when submit or cancel closes the form, showAddForm is false
\* and addForm is nil.
C39_AddFormPresent ==
    [][/\ model'.showAddForm => model'.addForm # NilForm
       /\ ClosesAddForm => model'.addForm = NilForm]_vars

-----------------------------------------------------------------------------
(* C40: the search of the history view *)

\* Connection c matches the search text: its identifier holds the text in
\* lower case, or it decodes to a user or hostname that does.
MatchesText(c, text) ==
    LET id     == c.HostName
        needle == ToLower(text)
        p      == ParseManualConnectionID(id)
    IN  \/ needle = <<>>
        \/ Contains(ToLower(id), needle)
        \/ /\ p.ok
           /\ Contains(ToLower(p.user), needle) \/ Contains(ToLower(p.hostname), needle)

\* small is large without some of its elements, the others in their order.
IsSubsequence(small, large) ==
    \E at \in [1..Len(small) -> 1..Len(large)] :
        /\ \A i \in 1..Len(small) : small[i] = large[at[i]]
        /\ \A i, j \in 1..Len(small) : i < j => at[i] < at[j]

\* filteredConns holds the matching connections, all of them, in the order
\* of connections.
FilterExact(m) ==
    /\ IsSubsequence(m.filteredConns, m.connections)
    /\ \A i \in 1..Len(m.connections) :
          MatchesText(m.connections[i], m.searchInput)
              <=> \E j \in 1..Len(m.filteredConns) :
                      m.filteredConns[j] = m.connections[i]

\* The step is a key press taken in search mode.
SearchPress(k) == model.searchActive /\ msg' = KeyMsg(k) /\ ~FormActive

-----------------------------------------------------------------------------
(* C36: encoding what was decoded *)

\* The ManualConnection made of the decoded fields.
Decoded == [User |-> parsed.user, Hostname |-> parsed.hostname,
            Port |-> parsed.port, Identity |-> <<>>]

\* C36 as stated: every identifier that ParseManualConnectionID decodes is
\* the identifier generateManualHostID gives for the decoded fields.
C36_ReEncodeAll ==
    (cstep = "decoded" /\ parsed.ok) => generateManualHostID(Decoded) = hostID

\* C36: an identifier that decodes to a non-empty user and a non-empty port
\* is the identifier generateManualHostID gives for the decoded fields; the
\* hostname may be empty or hold '@' and ':'.
C36_ReEncode ==
    (/\ cstep = "decoded"
     /\ parsed.ok
     /\ parsed.user # <<>>
     /\ parsed.port # <<>>)
    => generateManualHostID(Decoded) = hostID

\* "manual:a@:a" was decoded to user "a", an empty hostname and port "a".
C36_Witness ==
    /\ cstep = "decoded"
    /\ hostID = STR_manual \o <<"a", "@", ":", "a">>
    /\ parsed = [user |-> <<"a">>, hostname |-> <<>>, port |-> <<"a">>,
                 ok |-> TRUE]

-----------------------------------------------------------------------------
(* C37: connecting again keeps the history key *)

\* The identifier of the connection ParseSSHArgs made of the arguments.
ReconnectKey ==
    IF parsedArgs.ok THEN generateManualHostID(parsedArgs.conn) ELSE <<>>

-----------------------------------------------------------------------------
(* C35: migration and an existing document *)

\* NewHistoryManager is between its first os.Stat and loadHistory.
Migrating == opc \in {"statOld", "readOld", "writeNew", "removeOld"}

\* C35, the steps: with a document at the new path, NewHistoryManager goes
\* from its first os.Stat to loadHistory, and no step of it before the one
\* that follows its own write changes the document or the legacy file.
MigrationSkipped ==
    /\ (MigrateStatNew /\ doc # NoFile) => opc' = "load"
    /\ (opc' \in {"statOld", "readOld", "writeNew"}) => doc' = NoFile
    /\ (opc \in {"statNew", "load"} /\ doc # NoFile) => UNCHANGED <<doc, oldDoc>>

\* C35, the result: when the document holds what the legacy file held, an
\* Open that meets no failure returns the store with that content.
LoadsMigrated ==
    (/\ OpenReturned /\ clean
     /\ legacy # NoFile /\ doc # NoFile /\ doc.data = legacy)
    => /\ op.err = "nil"
       /\ SameAnswers(Unmarshal(legacy, EmptyHistory), history, hm = "nil")

-----------------------------------------------------------------------------
(* The focus of the edit form *)

\* (focusArea, focused) names an input the form has.
FocusDesignates(m) ==
    /\ Len(m.hostInputs) >= 1
    /\ Len(m.inputs) = NumInputs
    /\ m.focusArea \in {focusAreaHosts, focusAreaProperties}
    /\ m.focusArea = focusAreaHosts => m.focused \in 0..(Len(m.hostInputs) - 1)
    /\ m.focusArea = focusAreaProperties => m.focused \in 0..(NumInputs - 1)

\* The inputs in the focused state are exactly the one (focusArea, focused) names.
OnlyDesignatedFocused(m) ==
    /\ \A i \in 1..Len(m.hostInputs) :
         m.hostFocus[i] <=> (m.focusArea = focusAreaHosts /\ i = m.focused + 1)
    /\ \A i \in 1..Len(m.inputs) :
         m.inputFocus[i] <=> (m.focusArea = focusAreaProperties /\ i = m.focused + 1)

\* A navigation key moves to the neighbouring field, hosts first, and wraps.
NavigationWraps(m) ==
    LET total == Len(m.hostInputs) + Len(m.inputs) IN
    /\ \A s \in {"tab", "down", "enter"} :
         ~(s = "enter" /\ SubmitsOnEnter(m)) =>
           GlobalIndex(CycleFocus(m, s)) = (GlobalIndex(m) + 1) % total
    /\ \A s \in {"shift+tab", "up"} :
         GlobalIndex(CycleFocus(m, s)) = (GlobalIndex(m) + total - 1) % total

\* C38: whatever keys an open edit form has taken, (focusArea, focused) names
\* one of its inputs (a host input, of which there is always one at least, or
\* one of the nine properties), that input and no other is in the focused
\* state, and the navigation keys move to the neighbouring field, host
\* inputs before properties, wrapping around at both ends.
C38_FocusInvariant ==
    FormOpen =>
      /\ FocusDesignates(form)
      /\ OnlyDesignatedFocused(form)
      /\ NavigationWraps(form)

\* A form with an added host input whose focus went backwards round to the
\* last property.
C38_Witness ==
    /\ FormOpen
    /\ Len(form.hostInputs) = MaxHostInputs
    /\ form.focusArea = focusAreaProperties
    /\ form.focused = NumInputs - 1
    /\ form.inputFocus[NumInputs]

-----------------------------------------------------------------------------
(* The dispatch of the edit form *)

SingleUpdates == {"UpdateSSHHostInFile", "UpdateSSHHost"}

\* The step is a submit of a form whose values pass the checks, and it makes
\* a config call the form had not just made.
ValidSubmitStep ==
    /\ FormOpen
    /\ SubmitError(form) = ""
    /\ cfgCall' # cfgCall

\* The block the form was opened on, and the submitted form, have one name.
SingleToSingle(m, lines) ==
    /\ ~IsPartOfMultiHostDeclaration(m.originalName, lines)[1]
    /\ Len(m.originalHosts) = 1
    /\ Len(CollectHostNames(m)) = 1

-----------------------------------------------------------------------------
(* The validation of the edit form *)

\* No host input holds a non-blank name.
NoHostName(m) == \A i \in 1..Len(m.hostInputs) : TrimSpace(m.hostInputs[i]) = ""

\* The hostname input is blank.
EmptyHostname(m) == TrimSpace(m.inputs[1]) = ""

\* Some non-blank host name is refused by validation.ValidateHost.
SomeNameInvalid(m) ==
    \E i \in 1..Len(m.hostInputs) :
      /\ TrimSpace(m.hostInputs[i]) # ""
      /\ ValidateHost(TrimSpace(m.hostInputs[i]), CommonHost(m).Hostname,
                      CommonHost(m).Port, CommonHost(m).Identity) # ""

InvalidValues(m) == NoHostName(m) \/ EmptyHostname(m) \/ SomeNameInvalid(m)

\* C33: submitting an edit form with no non-blank host name, an empty
\* hostname or a host name that fails validation sets an error message,
\* makes no config call, leaves the file as it is and leaves the form open;
\* no key on such a form changes the file; and the form ends only by a
\* cancel or by a submit of valid values whose config call succeeded.
C33_ValidationKeepsConfig ==
    [][FormOpen =>
         /\ (InvalidValues(form) /\ Submit) =>
              /\ form'.status = "open"
              /\ form'.err # ""
              /\ cfgCall' = NoCall
              /\ config' = config
         /\ InvalidValues(form) =>
              /\ config' = config
              /\ form'.status \in {"open", "cancelled"}
              /\ cfgCall' # cfgCall => cfgCall' = NoCall
         /\ form'.status # "open" =>
              \/ form'.status = "cancelled" /\ UNCHANGED <<config, cfgCall>>
              \/ /\ form'.status = "saved"
                 /\ ~InvalidValues(form)
                 /\ cfgCall' # NoCall
                 /\ Perform(cfgCall', config)[2] = ""]_vars

\* An open form showing the error of a host name that validation refused,
\* its hostname being filled in and no config call made.
C33_Witness ==
    /\ FormOpen
    /\ SomeNameInvalid(form)
    /\ ~EmptyHostname(form)
    /\ form.err = "invalid host name"
    /\ cfgCall = NoCall

-----------------------------------------------------------------------------
(* sshm add, and the names a file declares *)

\* $(whoami)
Whoami == "me"

\* What sshm_add takes where sshm_edit takes the current values: the user
\* defaults to $(whoami), the port to 22, the key to default_identity_file.
AddDefaults ==
    [hostname |-> <<>>, user |-> <<Whoami>>, port |-> <<>>, identity |-> <<>>,
     proxyjump |-> <<>>]

\* grep -q "^Host $host$" "$config_file"
GrepHost(lines, host) == \E i \in 1..Len(lines) : lines[i] = HostLine(host)

\* The host exists already: exit 1 before the prompts.
sshm_add_exists(host) ==
    /\ Start
    /\ GrepHost(config, host)
    /\ arg' = [cmd |-> "sshm_add", host |-> host, ans |-> NoAnswers,
               cur |-> NoValues]
    /\ pre' = config
    /\ result' = "error"
    /\ UNCHANGED <<config, bak, tmp, pc>>
    /\ ConfigFrame

\* The HostName prompt is answered with Enter alone: exit 1.
sshm_add_nohostname(host, ans) ==
    /\ Start
    /\ ~GrepHost(config, host)
    /\ ans.hostname = ""
    /\ arg' = [cmd |-> "sshm_add", host |-> host, ans |-> ans,
               cur |-> AddDefaults]
    /\ pre' = config
    /\ result' = "error"
    /\ UNCHANGED <<config, bak, tmp, pc>>
    /\ ConfigFrame

\* touch "$config_file"; { echo ""; echo "Host $host"; ... } >> "$config_file"
sshm_add_append(host, ans) ==
    /\ Start
    /\ ~GrepHost(config, host)
    /\ ans.hostname # ""
    /\ config' = config \o NewBlock(host, ans, AddDefaults)
    /\ arg' = [cmd |-> "sshm_add", host |-> host, ans |-> ans,
               cur |-> AddDefaults]
    /\ pre' = config
    /\ result' = "ok"
    /\ UNCHANGED <<bak, tmp, pc>>
    /\ ConfigFrame

\* sshm add, sshm edit and sshm delete, each run to its end.
NamesNext ==
    \/ \E host \in CfgHosts : sshm_add_exists(host)
    \/ \E host \in CfgHosts, ans \in EditAnswers : sshm_add_nohostname(host, ans)
    \/ \E host \in CfgHosts, ans \in EditAnswers : sshm_add_append(host, ans)
    \/ \E host \in CfgHosts : sshm_delete_backup(host)
    \/ sshm_delete_sed
    \/ sshm_delete_mv
    \/ sshm_delete_restore
    \/ \E host \in CfgHosts : sshm_edit_notfound(host)
    \/ \E host \in CfgHosts, ans \in EditAnswers : sshm_edit_backup(host, ans)
    \/ sshm_edit_sed
    \/ sshm_edit_restore
    \/ sshm_edit_append
    \/ sshm_edit_mv
    \/ sshm_rm_bak
    \/ sshm_rm_tmp

\* The scripts are run on a file that declares no name twice.
NamesInit ==
    /\ config \in InitialConfigs
    /\ bak = Absent /\ tmp = Absent
    /\ pc = "idle"
    /\ arg = NoCommand
    /\ pre = config
    /\ result = "none"
    /\ ncmds = 0
    /\ conn = NoConn /\ hostID = <<>> /\ parsed = NotParsed
    /\ cstep = "idle"
    /\ history = EmptyHistory /\ now = 0
    /\ calls = NoCalls /\ lastCall = NoLastCall /\ origin = NoOrigin
    /\ hm = "open" /\ doc = NoFile /\ oldDoc = NoFile /\ opc = "idle"
    /\ buf = <<>> /\ faults = MaxFaults /\ nopens = 0 /\ op = NoOp
    /\ legacy = NoFile /\ clean = TRUE
    /\ hosts = <<>> /\ sorted = <<>> /\ sortBy = "none"
    /\ ctxDir = EmptyDir /\ ctxLast = NoContextCmd
    /\ model = NoModel /\ msg = NoMsg /\ viewCmd = "none"
    /\ stores = NoStores /\ lastWriter = 0 /\ missed = NoneMissed /\ recorded = NoneRecorded
    /\ args = <<>> /\ osUser = <<>> /\ parsedArgs = NotScanned /\ manualCmd = "unknown"
    /\ isManual = "unknown"
    /\ form = NoForm /\ nforms = 0 /\ cfgCall = NoCall

SpecNames == NamesInit /\ [][NamesNext]_vars

\* The Host lines of a file that declare the name.
Declaring(lines, name) ==
    {i \in 1..Len(lines) :
       IsHostLine(lines[i])
       /\ \E k \in 1..Len(NamesOf(lines[i])) : NamesOf(lines[i])[k] = name}

\* C31: between commands no host name is declared by more than one Host
\* line of the file, and an sshm add of a name the file declared has failed
\* and left the file as it was.
C31_NamesUnique ==
    pc = "idle" =>
      /\ \A name \in CfgHosts : Cardinality(Declaring(config, name)) <= 1
      /\ (arg.cmd = "sshm_add" /\ Declaring(pre, arg.host) # {}) =>
           (result = "error" /\ config = pre)

=============================================================================
